---- MODULE Spec2Model ----
(***************************************************************************)
(* A model of the PDF analysis pipeline of pdf-ssrs-blueprint:             *)
(*   AIPDFAnalyzer      (src/src/utils/AIPDFAnalyzer.ts, and its earlier   *)
(*                       revision src/unnamed/part_004)                    *)
(*   EnhancedPDFParser  (src/src/utils/EnhancedPDFParser.ts)               *)
(*   PDFParser          (src/unnamed/part_005)                             *)
(*   RDLGenerator / RDLHeaderGenerator.sanitizeFieldName                   *)
(*                      (src/unnamed/part_002)                             *)
(*                                                                         *)
(* Texts are sequences of one-character strings, so that the regular       *)
(* expressions and the string conversions of the code are computed         *)
(* character by character.  Components are identified by their index in    *)
(* the input list (JavaScript object identity); the fields later stages    *)
(* add to a component are functions of that index.  Coordinates are        *)
(* integers; scores are integers in units of 1/10000.                      *)
(***************************************************************************)
EXTENDS Integers, Sequences, FiniteSets, TLC

VARIABLES
    \* ---- one analysis of one page
    pc,                     \* how far the analysis has come
    components,             \* the text items of the page, in extraction order
    pageHeight,             \* viewport.height, as PDFParser.analyzeLayout gets it
    textClassifier,         \* AIPDFAnalyzer.textClassifier: Null or "loaded"
    aiResponse,             \* what the external classifier answers in this run
    classifiedComponents,   \* the result of analyzeComponents
    structuredComponents,   \* the result of analyzeDocumentStructure, which the later stages change in place
    tables,                 \* the result of detectTables
    labelDataPairs,         \* the result of findLabelDataPairs
    fieldMappings,          \* the result of generateFieldMappings
    analysis,               \* headerComponents, bodyComponents, footerComponents of the PDFAnalysisResult (ids)
    headerAnalysis,         \* EnhancedPDFParser.createSmartHeaderAnalysis
    sections,               \* header, body and footer items of PDFParser.analyzeLayout (ids)
    settled,                \* the components whose classifyTextComponent promise has resolved (ids)
    headerTextboxes,        \* rdlCompatible.headerTextboxes: width and height in 1/10000 in
    \* ---- the field-name generators (pure functions, applied repeatedly)
    fnWho,      \* which generator is applied
    fnIn,       \* the text it was first given
    fnOut,      \* the successive results: fnOut[1] = f(fnIn), fnOut[2] = f(f(fnIn))
    \* the state of the PDFAnalyzer component; an analysis is held as the
    \* document it was made from
    selectedFile,           \* the PDF chosen in the file input, or NoFile
    baseRDLContent,         \* TRUE when a base RDL has been loaded
    isAnalyzing,            \* analyzePDF is between its start and its finally
    analyzedFile,           \* the selectedFile the running analyzePDF closed over
    analysisResult,         \* setAnalysisResult
    enhancedAnalysis,       \* setEnhancedAnalysis
    editableFields,         \* setEditableFields
    executableRDL,          \* the document whose header the last generateExecutableRDL used
    \* ---- overlapping calls of AIPDFAnalyzer.initializeModel
    isLoading,              \* AIPDFAnalyzer.isLoading
    initCalls,              \* each caller's call: where it is and what it saw when it resolved
    \* ---- the Field Editor tab: PDFFieldEditor inside PDFAnalyzer
    activeTab,              \* PDFAnalyzer's activeTab
    fields,                 \* the fields prop, PDFAnalyzer's editableFields as a list of fields
    editorMounted,          \* TRUE while a PDFFieldEditor instance is rendered
    history,                \* PDFFieldEditor's history
    historyIndex            \* PDFFieldEditor's historyIndex, a JavaScript index (from 0)

pipeVars == <<pc, components, pageHeight, textClassifier, aiResponse, classifiedComponents,
              structuredComponents, tables, labelDataPairs, fieldMappings, analysis,
              headerAnalysis, sections, settled, headerTextboxes>>
fnVars == <<fnWho, fnIn, fnOut>>
uiVars == <<selectedFile, baseRDLContent, isAnalyzing, analyzedFile, analysisResult,
            enhancedAnalysis, editableFields, executableRDL>>
loadVars == <<isLoading, initCalls>>
editVars == <<activeTab, fields, editorMounted, history, historyIndex>>
vars == <<pc, components, pageHeight, textClassifier, aiResponse, classifiedComponents,
          structuredComponents, tables, labelDataPairs, fieldMappings, analysis,
          headerAnalysis, sections, settled, headerTextboxes, fnWho, fnIn, fnOut,
          selectedFile, baseRDLContent, isAnalyzing, analyzedFile, analysisResult,
          enhancedAnalysis, editableFields, executableRDL,
          isLoading, initCalls, activeTab, fields, editorMounted, history, historyIndex>>

Null == "null"
\* an optional text field that is not set (no text is made of this one element)
Undefined == <<"undefined">>
\* pairedWith of a component that is not paired (ids start at 1)
Unpaired == 0

\* ------------------------------------------------------------------------
\* Characters and strings
\* ------------------------------------------------------------------------
LowerLetters == <<"a","b","c","d","e","f","g","h","i","j","k","l","m",
                  "n","o","p","q","r","s","t","u","v","w","x","y","z">>
UpperLetters == <<"A","B","C","D","E","F","G","H","I","J","K","L","M",
                  "N","O","P","Q","R","S","T","U","V","W","X","Y","Z">>
Digits == {"0","1","2","3","4","5","6","7","8","9"}

Range(s) == {s[i] : i \in DOMAIN s}

IsLower(c) == c \in Range(LowerLetters)
IsUpper(c) == c \in Range(UpperLetters)
IsLetter(c) == IsLower(c) \/ IsUpper(c)
IsDigit(c) == c \in Digits
IsAlnum(c) == IsLetter(c) \/ IsDigit(c)
\* \s of a JavaScript regular expression, and what trim() strips
IsSpace(c) == c \in {" ", "\t", "\n"}
\* \w of a JavaScript regular expression
IsWord(c) == IsAlnum(c) \/ c = "_"

ToUpperChar(c) ==
    IF IsLower(c) THEN UpperLetters[CHOOSE i \in DOMAIN LowerLetters : LowerLetters[i] = c]
    ELSE c
ToLowerChar(c) ==
    IF IsUpper(c) THEN LowerLetters[CHOOSE i \in DOMAIN UpperLetters : UpperLetters[i] = c]
    ELSE c

\* String.prototype.toUpperCase / toLowerCase
ToUpperCase(t) == [i \in DOMAIN t |-> ToUpperChar(t[i])]
ToLowerCase(t) == [i \in DOMAIN t |-> ToLowerChar(t[i])]

RECURSIVE TrimStart(_)
TrimStart(t) ==
    IF t # <<>> /\ IsSpace(Head(t)) THEN TrimStart(Tail(t)) ELSE t

RECURSIVE TrimEnd(_)
TrimEnd(t) ==
    IF t # <<>> /\ IsSpace(t[Len(t)]) THEN TrimEnd(SubSeq(t, 1, Len(t) - 1)) ELSE t

\* String.prototype.trim
Trim(t) == TrimEnd(TrimStart(t))

\* t.split(/\s+/): the pieces between maximal runs of whitespace.  As in
\* JavaScript the empty string gives one empty piece, and a leading or a
\* trailing run gives an empty first or last piece.
RECURSIVE SplitFrom(_, _)
SplitFrom(t, cur) ==
    IF t = <<>> THEN <<cur>>
    ELSE IF IsSpace(Head(t))
         THEN <<cur>> \o SplitFrom(TrimStart(t), <<>>)
         ELSE SplitFrom(Tail(t), Append(cur, Head(t)))
SplitWhitespace(t) == SplitFrom(t, <<>>)

\* words.join('')
RECURSIVE JoinAll(_)
JoinAll(words) ==
    IF words = <<>> THEN <<>> ELSE Head(words) \o JoinAll(Tail(words))

\* word.charAt(0).toUpperCase() + word.slice(1).toLowerCase()
Capitalize(word) ==
    IF word = <<>> THEN <<>>
    ELSE <<ToUpperChar(word[1])>> \o ToLowerCase(Tail(word))

Field1 == <<"F","i","e","l","d","1">>
FieldUnderscore == <<"F","i","e","l","d","_">>

\* ------------------------------------------------------------------------
\* Regular expressions of the classifiers
\* ------------------------------------------------------------------------
\* In a token, OptWs stands for the \s? of the pattern
OptWs == "\\s?"

\* /^(SHIP\s?TO|BILL\s?TO|SOLD\s?TO|FROM|TO|DATE|ORDER|PO|INVOICE|CUSTOMER|CLIENT):?$/i
StaticTokens1 ==
    {<<"S","H","I","P",OptWs,"T","O">>,
     <<"B","I","L","L",OptWs,"T","O">>,
     <<"S","O","L","D",OptWs,"T","O">>,
     <<"F","R","O","M">>,
     <<"T","O">>,
     <<"D","A","T","E">>,
     <<"O","R","D","E","R">>,
     <<"P","O">>,
     <<"I","N","V","O","I","C","E">>,
     <<"C","U","S","T","O","M","E","R">>,
     <<"C","L","I","E","N","T">>}

\* /^(TOTAL|SUBTOTAL|TAX|AMOUNT|QTY|QUANTITY|DESCRIPTION|PRICE|UNIT\s?PRICE|ITEM|PRODUCT):?$/i
StaticTokens3 ==
    {<<"T","O","T","A","L">>,
     <<"S","U","B","T","O","T","A","L">>,
     <<"T","A","X">>,
     <<"A","M","O","U","N","T">>,
     <<"Q","T","Y">>,
     <<"Q","U","A","N","T","I","T","Y">>,
     <<"D","E","S","C","R","I","P","T","I","O","N">>,
     <<"P","R","I","C","E">>,
     <<"U","N","I","T",OptWs,"P","R","I","C","E">>,
     <<"I","T","E","M">>,
     <<"P","R","O","D","U","C","T">>}

\* /^(NAME|COMPANY|ADDRESS|PHONE|EMAIL|FAX|ACCOUNT|ID|NUMBER):?$/i
StaticTokens4 ==
    {<<"N","A","M","E">>,
     <<"C","O","M","P","A","N","Y">>,
     <<"A","D","D","R","E","S","S">>,
     <<"P","H","O","N","E">>,
     <<"E","M","A","I","L">>,
     <<"F","A","X">>,
     <<"A","C","C","O","U","N","T">>,
     <<"I","D">>,
     <<"N","U","M","B","E","R">>}

\* /^(DUE\s?DATE|PAYMENT\s?TERMS|REFERENCE|ORDER\s?DATE):?$/i
StaticTokens5 ==
    {<<"D","U","E",OptWs,"D","A","T","E">>,
     <<"P","A","Y","M","E","N","T",OptWs,"T","E","R","M","S">>,
     <<"R","E","F","E","R","E","N","C","E">>,
     <<"O","R","D","E","R",OptWs,"D","A","T","E">>}

\* /^(ITEM|DESCRIPTION|QTY|QUANTITY|PRICE|AMOUNT|TOTAL|UNIT|RATE|TAX)$/i
TableHeaderTokens1 ==
    {<<"I","T","E","M">>,
     <<"D","E","S","C","R","I","P","T","I","O","N">>,
     <<"Q","T","Y">>,
     <<"Q","U","A","N","T","I","T","Y">>,
     <<"P","R","I","C","E">>,
     <<"A","M","O","U","N","T">>,
     <<"T","O","T","A","L">>,
     <<"U","N","I","T">>,
     <<"R","A","T","E">>,
     <<"T","A","X">>}

\* /^(PRODUCT|SERVICE|HOURS|COST|SUBTOTAL|DISCOUNT)$/i
TableHeaderTokens2 ==
    {<<"P","R","O","D","U","C","T">>,
     <<"S","E","R","V","I","C","E">>,
     <<"H","O","U","R","S">>,
     <<"C","O","S","T">>,
     <<"S","U","B","T","O","T","A","L">>,
     <<"D","I","S","C","O","U","N","T">>}

\* isLikelyTableHeader: /^(description|qty|quantity|price|amount|total|date|item|product|name)/i
TypicalHeaderTokens ==
    {<<"D","E","S","C","R","I","P","T","I","O","N">>,
     <<"Q","T","Y">>,
     <<"Q","U","A","N","T","I","T","Y">>,
     <<"P","R","I","C","E">>,
     <<"A","M","O","U","N","T">>,
     <<"T","O","T","A","L">>,
     <<"D","A","T","E">>,
     <<"I","T","E","M">>,
     <<"P","R","O","D","U","C","T">>,
     <<"N","A","M","E">>}

\* earlier revision: /^(SHIP TO|BILL TO|SOLD TO|FROM|TO|DATE|ORDER|PO|INVOICE|CUSTOMER):?$/i
LegacyStaticTokens1 ==
    {<<"S","H","I","P"," ","T","O">>,
     <<"B","I","L","L"," ","T","O">>,
     <<"S","O","L","D"," ","T","O">>,
     <<"F","R","O","M">>,
     <<"T","O">>,
     <<"D","A","T","E">>,
     <<"O","R","D","E","R">>,
     <<"P","O">>,
     <<"I","N","V","O","I","C","E">>,
     <<"C","U","S","T","O","M","E","R">>}

\* earlier revision: /^(TOTAL|SUBTOTAL|TAX|AMOUNT|QTY|QUANTITY|DESCRIPTION|PRICE):?$/i
LegacyStaticTokens3 ==
    {<<"T","O","T","A","L">>,
     <<"S","U","B","T","O","T","A","L">>,
     <<"T","A","X">>,
     <<"A","M","O","U","N","T">>,
     <<"Q","T","Y">>,
     <<"Q","U","A","N","T","I","T","Y">>,
     <<"D","E","S","C","R","I","P","T","I","O","N">>,
     <<"P","R","I","C","E">>}

\* earlier revision: /^(NAME|COMPANY|ADDRESS|PHONE|EMAIL|FAX|ACCOUNT):?$/i
LegacyStaticTokens4 ==
    {<<"N","A","M","E">>,
     <<"C","O","M","P","A","N","Y">>,
     <<"A","D","D","R","E","S","S">>,
     <<"P","H","O","N","E">>,
     <<"E","M","A","I","L">>,
     <<"F","A","X">>,
     <<"A","C","C","O","U","N","T">>}

Last(t) == t[Len(t)]
Front(t) == SubSeq(t, 1, Len(t) - 1)

\* t matches ^token$ under the i flag
RECURSIVE MatchToken(_, _)
MatchToken(p, t) ==
    IF p = <<>> THEN t = <<>>
    ELSE IF Head(p) = OptWs
         THEN \/ t # <<>> /\ IsSpace(Head(t)) /\ MatchToken(Tail(p), Tail(t))
              \/ MatchToken(Tail(p), t)
         ELSE t # <<>> /\ ToUpperChar(Head(t)) = Head(p) /\ MatchToken(Tail(p), Tail(t))

\* /^(A|B|...)$/i
MatchesToken(tokens, t) == \E p \in tokens : MatchToken(p, t)

\* /^(A|B|...):?$/i
MatchesLabelToken(tokens, t) ==
    \/ MatchesToken(tokens, t)
    \/ t # <<>> /\ Last(t) = ":" /\ MatchesToken(tokens, Front(t))

\* /^(a|b|...)/i : some token is a prefix of t
RECURSIVE IsPrefixToken(_, _)
IsPrefixToken(p, t) ==
    IF p = <<>> THEN TRUE
    ELSE t # <<>> /\ ToUpperChar(Head(t)) = Head(p) /\ IsPrefixToken(Tail(p), Tail(t))
StartsWithToken(tokens, t) == \E p \in tokens : IsPrefixToken(p, t)

\* /^[A-Z\s]{lo,hi}:$/
UpperColonPattern(t, lo, hi) ==
    /\ Len(t) - 1 >= lo
    /\ Len(t) - 1 <= hi
    /\ Last(t) = ":"
    /\ \A i \in 1..(Len(t) - 1) : IsUpper(t[i]) \/ IsSpace(t[i])

AllIn(t, S) == \A i \in DOMAIN t : t[i] \in S
AllDigits(t) == \A i \in DOMAIN t : IsDigit(t[i])

\* /^\d+([.,]\d+)*$/
NumberPattern(t) ==
    /\ t # <<>>
    /\ \A i \in DOMAIN t : IsDigit(t[i]) \/ t[i] \in {".", ","}
    /\ IsDigit(t[1])
    /\ IsDigit(Last(t))
    /\ \A i \in 1..(Len(t) - 1) : IsDigit(t[i]) \/ IsDigit(t[i + 1])

\* /^\$[\d,]+(\.\d{2})?$/
CurrencyPattern(t) ==
    /\ t # <<>>
    /\ t[1] = "$"
    /\ LET r == Tail(t)
           n == Len(r)
       IN \/ r # <<>> /\ AllIn(r, Digits \cup {","})
          \/ /\ n >= 4
             /\ r[n - 2] = "."
             /\ IsDigit(r[n - 1])
             /\ IsDigit(r[n])
             /\ AllIn(SubSeq(r, 1, n - 3), Digits \cup {","})

\* earlier revision: /^\$\d+([.,]\d{2})?$/
LegacyCurrencyPattern(t) ==
    /\ t # <<>>
    /\ t[1] = "$"
    /\ LET r == Tail(t)
           n == Len(r)
       IN \/ r # <<>> /\ AllDigits(r)
          \/ /\ n >= 4
             /\ r[n - 2] \in {".", ","}
             /\ IsDigit(r[n - 1])
             /\ IsDigit(r[n])
             /\ AllDigits(SubSeq(r, 1, n - 3))

\* /\d{1,2}[-\/]\d{1,2}[-\/]\d{2,4}/ (not anchored): some substring is
\* digit, separator, one or two digits, separator, two digits
DateSeparators == {"-", "/"}
DatePattern(t) ==
    \E i \in DOMAIN t :
        /\ IsDigit(t[i])
        /\ i + 1 <= Len(t)
        /\ t[i + 1] \in DateSeparators
        /\ \/ /\ i + 5 <= Len(t)
              /\ IsDigit(t[i + 2])
              /\ t[i + 3] \in DateSeparators
              /\ IsDigit(t[i + 4])
              /\ IsDigit(t[i + 5])
           \/ /\ i + 6 <= Len(t)
              /\ IsDigit(t[i + 2])
              /\ IsDigit(t[i + 3])
              /\ t[i + 4] \in DateSeparators
              /\ IsDigit(t[i + 5])
              /\ IsDigit(t[i + 6])

\* /@[\w.-]+\.\w+/ (not anchored)
EmailPattern(t) ==
    \E i \in DOMAIN t : \E j \in DOMAIN t :
        /\ t[i] = "@"
        /\ j > i + 1
        /\ t[j] = "."
        /\ j + 1 <= Len(t)
        /\ IsWord(t[j + 1])
        /\ \A k \in (i + 1)..(j - 1) : IsWord(t[k]) \/ t[k] \in {".", "-"}

\* earlier revision: /@\w+\.\w+/
LegacyEmailPattern(t) ==
    \E i \in DOMAIN t : \E j \in DOMAIN t :
        /\ t[i] = "@"
        /\ j > i + 1
        /\ t[j] = "."
        /\ j + 1 <= Len(t)
        /\ IsWord(t[j + 1])
        /\ \A k \in (i + 1)..(j - 1) : IsWord(t[k])

\* /^\d{3}[-.\s]?\d{3}[-.\s]?\d{4}$/
PhoneSeparators == {"-", ".", " ", "\t", "\n"}
PhonePattern(t) ==
    \E a \in {0, 1} : \E b \in {0, 1} :
        /\ Len(t) = 10 + a + b
        /\ AllDigits(SubSeq(t, 1, 3))
        /\ a = 1 => t[4] \in PhoneSeparators
        /\ AllDigits(SubSeq(t, 4 + a, 6 + a))
        /\ b = 1 => t[7 + a] \in PhoneSeparators
        /\ AllDigits(SubSeq(t, 7 + a + b, 10 + a + b))

\* /^[a-z]/
StartsLowerPattern(t) == t # <<>> /\ IsLower(t[1])

\* /.{30,}/ : thirty consecutive characters other than a line break
LongTextPattern(t) ==
    \E i \in DOMAIN t :
        /\ i + 29 <= Len(t)
        /\ \A k \in i..(i + 29) : t[k] # "\n"

\* /^\d+$/
PureNumberPattern(t) == t # <<>> /\ AllDigits(t)

\* /^[A-Z0-9]+[-_][A-Z0-9]+/
IsCodeChar(c) == IsUpper(c) \/ IsDigit(c)
CodePattern(t) ==
    \E j \in DOMAIN t :
        /\ j >= 2
        /\ t[j] \in {"-", "_"}
        /\ j + 1 <= Len(t)
        /\ IsCodeChar(t[j + 1])
        /\ \A k \in 1..(j - 1) : IsCodeChar(t[k])

\* text.includes(':') and text.endsWith(':')
Includes(t, c) == \E i \in DOMAIN t : t[i] = c
EndsWith(t, c) == t # <<>> /\ Last(t) = c

\* ------------------------------------------------------------------------
\* Classification of one component (AIPDFAnalyzer)
\* ------------------------------------------------------------------------
\* A classification is [label, score]; the reasoning text and the
\* high/medium/low band derived from the score are not modelled.
Labels == {"static-label", "dynamic-data", "standalone-text", "table-header"}

Result(label, score) == [label |-> label, score |-> score]

\* no context has been attached to a component yet (component.context is undefined)
NoContext == "undefined"

staticLabelPatterns(text) ==
    \/ MatchesLabelToken(StaticTokens1, text)
    \/ UpperColonPattern(text, 2, 25)
    \/ MatchesLabelToken(StaticTokens3, text)
    \/ MatchesLabelToken(StaticTokens4, text)
    \/ MatchesLabelToken(StaticTokens5, text)

tableHeaderPatterns(text) ==
    \/ MatchesToken(TableHeaderTokens1, text)
    \/ MatchesToken(TableHeaderTokens2, text)

dynamicDataPatterns(text) ==
    \/ NumberPattern(text)
    \/ CurrencyPattern(text)
    \/ DatePattern(text)
    \/ EmailPattern(text)
    \/ PhonePattern(text)
    \/ StartsLowerPattern(text)
    \/ LongTextPattern(text)
    \/ PureNumberPattern(text)
    \/ CodePattern(text)

\* enhancedRuleBasedClassification(text, component): the tiers in the order of
\* the code; position is component.context?.position
enhancedRuleBasedClassification(text, component, position) ==
    IF tableHeaderPatterns(text) THEN Result("table-header", 9500)
    ELSE IF staticLabelPatterns(text) THEN Result("static-label", 9000)
    ELSE IF dynamicDataPatterns(text) THEN Result("dynamic-data", 8500)
    ELSE IF component.fontWeight = "bold" /\ Len(text) < 20 /\ Includes(text, ":")
         THEN Result("static-label", 8000)
    ELSE IF component.fontWeight = "bold" /\ Len(text) < 15
         THEN Result("table-header", 7500)
    ELSE IF component.fontSize > 14 THEN Result("static-label", 7000)
    ELSE IF position = "left" /\ EndsWith(text, ":") THEN Result("static-label", 7500)
    ELSE Result("standalone-text", 5000)

\* What the zero-shot classifier answers for a text: the top candidate label
\* with its score, or Throw when the call fails.
CandidateLabels ==
    {"form label", "table header", "data value", "title or heading",
     "address information", "monetary amount", "date or time", "contact information"}

Throw == [top |-> "throw", score |-> 0]

\* aiClassificationZeroShot: the switch that maps the top candidate label
aiClassificationZeroShot(response) ==
    LET mappedLabel ==
            CASE response.top \in {"form label", "title or heading"} -> "static-label"
              [] response.top = "table header" -> "table-header"
              [] response.top \in {"data value", "monetary amount", "date or time",
                                   "contact information", "address information"} -> "dynamic-data"
              [] OTHER -> "standalone-text"
    IN Result(mappedLabel, response.score)

\* a plausible slip: on a disagreement the rule-based result always wins
combineClassificationsRuleFirst(ruleBased, aiResult) ==
    IF ruleBased.label = aiResult.label
    THEN Result(ruleBased.label, (ruleBased.score * 7 + aiResult.score * 3) \div 10)
    ELSE ruleBased

\* a plausible slip: the two scores added instead of averaged with weights
combineClassificationsUnweighted(ruleBased, aiResult) ==
    IF ruleBased.label = aiResult.label
    THEN Result(ruleBased.label, ruleBased.score + aiResult.score)
    ELSE IF ruleBased.score > aiResult.score THEN ruleBased ELSE aiResult

\* combineClassifications: ruleWeight 0.7, aiWeight 0.3
combineClassifications(ruleBased, aiResult) ==
    IF ruleBased.label = aiResult.label
    THEN Result(ruleBased.label, (ruleBased.score * 7 + aiResult.score * 3) \div 10)
    ELSE IF ruleBased.score > aiResult.score THEN ruleBased ELSE aiResult

\* a plausible slip: the classifier's failure is not caught, and the
\* rejection is what classifyTextComponent returns
classifyTextComponentUncaught(component, classifier, response) ==
    LET text == Trim(component.text)
        ruleBasedResult == enhancedRuleBasedClassification(text, component, NoContext)
    IN IF ruleBasedResult.score > 8000 THEN ruleBasedResult
       ELSE IF classifier # Null
            THEN IF response = Throw THEN Result("rejected", 0)
                 ELSE combineClassifications(ruleBasedResult, aiClassificationZeroShot(response))
            ELSE ruleBasedResult

\* classifyTextComponent(component), given the state of the static
\* textClassifier and the answer the classifier gives
classifyTextComponent(component, classifier, response) ==
    LET text == Trim(component.text)
        ruleBasedResult == enhancedRuleBasedClassification(text, component, NoContext)
    IN IF ruleBasedResult.score > 8000 THEN ruleBasedResult
       ELSE IF classifier # Null /\ response # Throw
            THEN combineClassifications(ruleBasedResult, aiClassificationZeroShot(response))
            ELSE ruleBasedResult

\* ---- the earlier revision (src/unnamed/part_004) ----
legacyStaticPatterns(text) ==
    \/ MatchesLabelToken(LegacyStaticTokens1, text)
    \/ UpperColonPattern(text, 3, 20)
    \/ MatchesLabelToken(LegacyStaticTokens3, text)
    \/ MatchesLabelToken(LegacyStaticTokens4, text)

legacyDynamicPatterns(text) ==
    \/ NumberPattern(text)
    \/ LegacyCurrencyPattern(text)
    \/ DatePattern(text)
    \/ LegacyEmailPattern(text)
    \/ PhonePattern(text)
    \/ StartsLowerPattern(text)
    \/ LongTextPattern(text)

ruleBasedClassification(text, component) ==
    IF legacyStaticPatterns(text) THEN Result("static-label", 9000)
    ELSE IF legacyDynamicPatterns(text) THEN Result("dynamic-data", 8500)
    ELSE IF component.fontWeight = "bold" /\ Len(text) < 20 THEN Result("static-label", 7000)
    ELSE IF component.fontSize > 14 THEN Result("static-label", 6000)
    ELSE Result("standalone-text", 5000)

\* aiClassification of the earlier revision: a sentiment model's answer
\* [label in {POSITIVE, NEGATIVE}, score]
SentimentThrow == [label |-> "throw", score |-> 0]

legacyAiClassification(sentiment) ==
    IF sentiment.label = "POSITIVE" /\ sentiment.score > 7000
    THEN Result("static-label", sentiment.score)
    ELSE IF sentiment.label = "NEGATIVE" /\ sentiment.score > 7000
    THEN Result("dynamic-data", sentiment.score)
    ELSE Result("standalone-text", 6000)

legacyClassifyTextComponent(component, classifier, sentiment) ==
    LET text == Trim(component.text)
        ruleBasedResult == ruleBasedClassification(text, component)
    IN IF ruleBasedResult.score > 8000 THEN ruleBasedResult
       ELSE IF classifier # Null /\ sentiment # SentimentThrow
            THEN combineClassifications(ruleBasedResult, legacyAiClassification(sentiment))
            ELSE ruleBasedResult

\* ------------------------------------------------------------------------
\* Geometry and lists
\* ------------------------------------------------------------------------
Abs(n) == IF n < 0 THEN -n ELSE n
Square(n) == n * n

RECURSIVE SeqMin(_)
SeqMin(q) == IF Len(q) = 1 THEN q[1]
             ELSE LET m == SeqMin(Tail(q)) IN IF q[1] < m THEN q[1] ELSE m
RECURSIVE SeqMax(_)
SeqMax(q) == IF Len(q) = 1 THEN q[1]
             ELSE LET m == SeqMax(Tail(q)) IN IF q[1] > m THEN q[1] ELSE m

\* [...list].sort((a, b) => Key(a) - Key(b)): Array.prototype.sort is stable
SortByKey(list, keys) ==
    LET n == Len(list)
        rank(i) == 1 + Cardinality({j \in 1..n :
                        \/ keys[j] < keys[i]
                        \/ keys[j] = keys[i] /\ j < i})
    IN [k \in 1..n |-> list[CHOOSE i \in 1..n : rank(i) = k]]

SortByX(list) == SortByKey(list, [i \in DOMAIN list |-> list[i].x])
SortByY(list) == SortByKey(list, [i \in DOMAIN list |-> list[i].y])

Ids(list) == [i \in DOMAIN list |-> list[i].id]

\* AIPDFAnalyzer.calculateDistance measures between the box centers
\* (x + width/2, y + height/2).  CenterDistSq is the square of twice that
\* distance, which is an integer: distance < d  <=>  CenterDistSq < (2d)^2.
CenterDistSq(comp1, comp2) ==
    Square((2 * comp1.x + comp1.width) - (2 * comp2.x + comp2.width))
    + Square((2 * comp1.y + comp1.height) - (2 * comp2.y + comp2.height))

\* EnhancedPDFParser.calculateDistance measures between the top-left corners.
\* CornerDistSq is the square of that distance.
CornerDistSq(comp1, comp2) ==
    Square(Abs(comp1.x - comp2.x)) + Square(Abs(comp1.y - comp2.y))

\* candidates.reduce((prev, curr) => Dist(label, curr) < Dist(label, prev) ? curr : prev)
RECURSIVE ReduceClosest(_, _, _)
ReduceClosest(prev, rest, distSq) ==
    IF rest = <<>> THEN prev
    ELSE ReduceClosest(IF distSq[Head(rest).id] < distSq[prev.id] THEN Head(rest) ELSE prev,
                       Tail(rest), distSq)

\* ------------------------------------------------------------------------
\* analyzeContext and analyzeDocumentStructure
\* ------------------------------------------------------------------------
ContextProximity == 150
ContextRowTolerance == 20

\* analyzeContext(component, allComponents).position (nearbyText is not modelled)
analyzeContext(component, allComponents) ==
    LET nearby == SelectSeq(allComponents, LAMBDA other :
                      /\ other.id # component.id
                      /\ CenterDistSq(component, other) < Square(2 * ContextProximity))
        sameRow == SelectSeq(nearby, LAMBDA c : Abs(c.y - component.y) < ContextRowTolerance)
        rightComponents == SelectSeq(sameRow, LAMBDA c : c.x > component.x + component.width)
        leftComponents == SelectSeq(sameRow, LAMBDA c : c.x + c.width < component.x)
        belowComponents == SelectSeq(nearby, LAMBDA c : c.y > component.y + component.height)
        aboveComponents == SelectSeq(nearby, LAMBDA c : c.y + c.height < component.y)
    IN IF nearby = <<>> THEN "isolated"
       ELSE IF sameRow # <<>>
            THEN IF rightComponents # <<>> THEN "right"
                 ELSE IF leftComponents # <<>> THEN "left"
                 ELSE "isolated"
            ELSE IF belowComponents # <<>> THEN "below"
                 ELSE IF aboveComponents # <<>> THEN "above"
                 ELSE "isolated"

PageMaxY(comps) == SeqMax([i \in DOMAIN comps |-> comps[i].y + comps[i].height])
PageMinY(comps) == SeqMin([i \in DOMAIN comps |-> comps[i].y])

\* The region analyzeDocumentStructure gives one component: header above
\* minY + 0.15 * span, else footer when its bottom is below
\* maxY - 0.15 * span, with span = maxY - minY, else body (the comparisons in exact arithmetic).
RegionOf(component, comps) ==
    LET maxY == PageMaxY(comps)
        minY == PageMinY(comps)
        span == maxY - minY
    IN IF 100 * (component.y - minY) < 15 * span THEN "header"
       ELSE IF 100 * (maxY - (component.y + component.height)) < 15 * span THEN "footer"
       ELSE "body"

\* analyzeDocumentStructure: an empty list is returned as it is; otherwise
\* every component is copied with its rdlType
analyzeDocumentStructure(comps) ==
    IF comps = <<>> THEN comps
    ELSE [i \in DOMAIN comps |->
             [id |-> comps[i].id,
              text |-> comps[i].text,
              x |-> comps[i].x,
              y |-> comps[i].y,
              width |-> comps[i].width,
              height |-> comps[i].height,
              fontSize |-> comps[i].fontSize,
              fontWeight |-> comps[i].fontWeight,
              aiClassification |-> comps[i].aiClassification,
              context |-> comps[i].context,
              fieldMapping |-> Undefined,
              rdlType |-> RegionOf(comps[i], comps)]]

\* ------------------------------------------------------------------------
\* Table detection (AIPDFAnalyzer.detectTables and its helpers)
\* ------------------------------------------------------------------------
RowTolerance == 10
AlignTolerance == 20
HeaderGap == 20

\* The loop of groupByRows.  currentY is a running average (currentY + y) / 2,
\* kept exactly as the fraction num/den; -1 is the "no row yet" value.
RECURSIVE GroupLoop(_, _, _, _, _)
GroupLoop(sorted, tolerance, groups, currentGroup, currentY) ==
    IF sorted = <<>>
    THEN IF currentGroup # <<>> THEN Append(groups, currentGroup) ELSE groups
    ELSE LET component == Head(sorted)
             unset == currentY.num = -currentY.den
             near == Abs(component.y * currentY.den - currentY.num) <= tolerance * currentY.den
         IN IF unset \/ near
            THEN GroupLoop(Tail(sorted), tolerance, groups, Append(currentGroup, component),
                           IF unset THEN [num |-> component.y, den |-> 1]
                           ELSE [num |-> currentY.num + component.y * currentY.den,
                                 den |-> 2 * currentY.den])
            ELSE GroupLoop(Tail(sorted), tolerance,
                           IF currentGroup # <<>> THEN Append(groups, currentGroup) ELSE groups,
                           <<component>>, [num |-> component.y, den |-> 1])

groupByRows(comps, tolerance) ==
    GroupLoop(SortByY(comps), tolerance, <<>>, <<>>, [num |-> -1, den |-> 1])

RECURSIVE SumSeq(_)
SumSeq(q) == IF q = <<>> THEN 0 ELSE Head(q) + SumSeq(Tail(q))

\* isLikelyTableHeader(components): more than half bold, or a typical header
\* word at the start of some text, or every X-gap within 30% of the mean gap
isLikelyTableHeader(comps) ==
    IF Len(comps) < 2 THEN FALSE
    ELSE LET n == Len(comps)
             boldCount == Cardinality({i \in 1..n : comps[i].fontWeight = "bold"})
             hasTypicalHeaders ==
                 \E i \in 1..n : StartsWithToken(TypicalHeaderTokens, Trim(comps[i].text))
             xPositions == SortByX(comps)
             spacings == [i \in 1..(n - 1) |-> xPositions[i + 1].x - xPositions[i].x]
             total == SumSeq(spacings)
             \* |s - avg| < avg * 0.3 with avg = total / (n - 1)
             consistentSpacing ==
                 \A i \in 1..(n - 1) : 10 * Abs(spacings[i] * (n - 1) - total) < 3 * total
         IN (2 * boldCount > n) \/ hasTypicalHeaders \/ consistentSpacing

\* the number of components of a row within the tolerance of the closest header X
AlignmentScore(sortedRow, headerRow) ==
    Cardinality({i \in DOMAIN sortedRow :
        LET dists == [h \in DOMAIN headerRow |-> Abs(headerRow[h].x - sortedRow[i].x)]
        IN SeqMin(dists) < AlignTolerance})

\* findAlignedRows(headerRow, allComponents)
findAlignedRows(headerRow, allComponents) ==
    LET headerY == headerRow[1].y
        belowComponents == SelectSeq(allComponents, LAMBDA c : c.y > headerY + HeaderGap)
        rowGroups == groupByRows(belowComponents, RowTolerance)
        sortedRows == [g \in DOMAIN rowGroups |-> SortByX(rowGroups[g])]
        \* length >= Math.max(2, headerRow.length * 0.5) and score >= length * 0.6
        aligned(row) ==
            /\ Len(row) >= 2
            /\ 2 * Len(row) >= Len(headerRow)
            /\ 10 * AlignmentScore(row, headerRow) >= 6 * Len(row)
    IN SelectSeq(sortedRows, aligned)

\* a plausible slip: the column count taken from the widest row
createTableStructureWidest(headers, rows) ==
    LET allComponents == headers \o JoinAll(rows)
        minX == SeqMin([i \in DOMAIN allComponents |-> allComponents[i].x])
        minY == SeqMin([i \in DOMAIN allComponents |-> allComponents[i].y])
        maxX == SeqMax([i \in DOMAIN allComponents |-> allComponents[i].x + allComponents[i].width])
        maxY == SeqMax([i \in DOMAIN allComponents |-> allComponents[i].y + allComponents[i].height])
    IN [headers |-> Ids(headers),
        rows |-> [r \in DOMAIN rows |-> Ids(rows[r])],
        bounds |-> [x |-> minX, y |-> minY, width |-> maxX - minX, height |-> maxY - minY],
        columnCount |-> SeqMax([r \in DOMAIN rows |-> Len(rows[r])]),
        rowCount |-> Len(rows)]

\* a plausible slip: the bounds taken from the header row alone
createTableStructureHeaderBounds(headers, rows) ==
    LET minX == SeqMin([i \in DOMAIN headers |-> headers[i].x])
        minY == SeqMin([i \in DOMAIN headers |-> headers[i].y])
        maxX == SeqMax([i \in DOMAIN headers |-> headers[i].x + headers[i].width])
        maxY == SeqMax([i \in DOMAIN headers |-> headers[i].y + headers[i].height])
    IN [headers |-> Ids(headers),
        rows |-> [r \in DOMAIN rows |-> Ids(rows[r])],
        bounds |-> [x |-> minX, y |-> minY, width |-> maxX - minX, height |-> maxY - minY],
        columnCount |-> Len(headers),
        rowCount |-> Len(rows)]

\* createTableStructure(headers, rows); a table holds its components by id
createTableStructure(headers, rows) ==
    LET allComponents == headers \o JoinAll(rows)
        minX == SeqMin([i \in DOMAIN allComponents |-> allComponents[i].x])
        minY == SeqMin([i \in DOMAIN allComponents |-> allComponents[i].y])
        maxX == SeqMax([i \in DOMAIN allComponents |-> allComponents[i].x + allComponents[i].width])
        maxY == SeqMax([i \in DOMAIN allComponents |-> allComponents[i].y + allComponents[i].height])
    IN [headers |-> Ids(headers),
        rows |-> [r \in DOMAIN rows |-> Ids(rows[r])],
        bounds |-> [x |-> minX, y |-> minY, width |-> maxX - minX, height |-> maxY - minY],
        columnCount |-> Len(headers),
        rowCount |-> Len(rows)]

\* The loop of detectTables over the row groups of all components.  (The set
\* processedComponents the loop fills is never read, and is left out.)
RECURSIVE TablesLoop(_, _, _)
TablesLoop(rowGroups, comps, tbls) ==
    IF rowGroups = <<>> THEN tbls
    ELSE LET rowGroup == Head(rowGroups)
             sortedRow == SortByX(rowGroup)
             tableRows == findAlignedRows(sortedRow, comps)
         IN IF Len(rowGroup) < 2 THEN TablesLoop(Tail(rowGroups), comps, tbls)
            ELSE IF isLikelyTableHeader(sortedRow) /\ tableRows # <<>>
                 THEN TablesLoop(Tail(rowGroups), comps,
                                 Append(tbls, createTableStructure(sortedRow, tableRows)))
                 ELSE TablesLoop(Tail(rowGroups), comps, tbls)

detectedTables(comps) ==
    TablesLoop(groupByRows(comps, RowTolerance), comps, <<>>)

IndexIn(q, e) == IF \E i \in DOMAIN q : q[i] = e
                 THEN CHOOSE i \in DOMAIN q : q[i] = e /\ \A j \in 1..(i - 1) : q[j] # e
                 ELSE 0

\* The second half of detectTables: the context of every component that the
\* first table holding it (as a header, or else as a cell) gives it
TableContextOf(component, tbls) ==
    LET holds(t) == \/ IndexIn(tbls[t].headers, component.id) # 0
                    \/ \E r \in DOMAIN tbls[t].rows : IndexIn(tbls[t].rows[r], component.id) # 0
        found == {t \in DOMAIN tbls : holds(t)}
    IN IF found = {} THEN component.context
       ELSE LET t == CHOOSE t \in found : \A u \in found : t <= u
                table == tbls[t]
                headerIndex == IndexIn(table.headers, component.id)
                rowsWith == {r \in DOMAIN table.rows : IndexIn(table.rows[r], component.id) # 0}
                rowIndex == CHOOSE r \in rowsWith : \A q \in rowsWith : r <= q
            IN IF headerIndex # 0
               THEN [position |-> component.context.position, isInTable |-> TRUE,
                     tableColumn |-> headerIndex - 1, tableRow |-> 0]
               ELSE [position |-> component.context.position, isInTable |-> TRUE,
                     tableColumn |-> IndexIn(table.rows[rowIndex], component.id) - 1,
                     tableRow |-> rowIndex]

\* ------------------------------------------------------------------------
\* The field-name generators
\* ------------------------------------------------------------------------
KeepAlnumSpace(c) == IsAlnum(c) \/ IsSpace(c)
KeepAlnumUnderscore(c) == IsAlnum(c) \/ c = "_"
NotSpace(c) == ~IsSpace(c)

\* The chain shared by generateFieldName and RDLGenerator.sanitizeFieldName:
\*   text.replace(/[^a-zA-Z0-9\s]/g, '').trim().split(/\s+/)
\*       .map(capitalize).join('').replace(/\s/g, '')
PascalCase(text) ==
    LET cleaned == Trim(SelectSeq(text, KeepAlnumSpace))
        words == SplitWhitespace(cleaned)
        capped == [i \in DOMAIN words |-> Capitalize(words[i])]
    IN SelectSeq(JoinAll(capped), NotSpace)

\* AIPDFAnalyzer.generateFieldName: the chain, with no fallback
generateFieldName(text) == PascalCase(text)

\* RDLGenerator.sanitizeFieldName: if (!text) return 'Field1'; chain || 'Field1'
sanitizeFieldName(text) ==
    IF text = <<>> THEN Field1
    ELSE IF PascalCase(text) = <<>> THEN Field1 ELSE PascalCase(text)

\* RDLHeaderGenerator.sanitizeFieldName:
\*   if (!name) return 'Field1';
\*   name.replace(/[^a-zA-Z0-9_]/g, '').replace(/^[^a-zA-Z]/, 'Field_') || 'Field1'
sanitizeHeaderFieldName(name) ==
    IF name = <<>> THEN Field1
    ELSE LET kept == SelectSeq(name, KeepAlnumUnderscore)
             fixed == IF kept # <<>> /\ ~IsLetter(kept[1])
                      THEN FieldUnderscore \o Tail(kept)
                      ELSE kept
         IN IF fixed = <<>> THEN Field1 ELSE fixed

Generators == {"generateFieldName", "sanitizeFieldName", "sanitizeHeaderFieldName"}

ApplyGenerator(who, text) ==
    CASE who = "generateFieldName" -> generateFieldName(text)
      [] who = "sanitizeFieldName" -> sanitizeFieldName(text)
      [] who = "sanitizeHeaderFieldName" -> sanitizeHeaderFieldName(text)

\* ------------------------------------------------------------------------
\* Label-data pairing
\* ------------------------------------------------------------------------
PairMaxDistance == 300

\* a plausible slip: the proximity max(0, ...) compared with >= 0, which
\* accepts every candidate
ProximityNotNegative(distSq, scale, tenths) == distSq >= 0

\* max(0, 1 - distance / PairMaxDistance) > tenths / 10 as the doubles compare,
\* for the square distSq of (scale * distance).  The doubles agree with the
\* exact comparison but for 1 - 210 / 300, which evaluates to
\* 0.30000000000000004 and is above the double 0.3.
ProximityAbove(distSq, scale, tenths) ==
    \/ 100 * distSq < Square(10 - tenths) * Square(scale * PairMaxDistance)
    \/ tenths = 3 /\ 100 * distSq = Square(10 - tenths) * Square(scale * PairMaxDistance)

\* the adjacency test of AIPDFAnalyzer.findLabelDataPairs
IsCandidate(label, data) ==
    \/ data.x > label.x + label.width /\ Abs(data.y - label.y) < 30
    \/ data.y > label.y + label.height /\ Abs(data.x - label.x) < 50
    \/ /\ Abs(data.y - label.y) < 10
       /\ data.x > label.x + label.width
       /\ data.x < label.x + label.width + 200

SetFieldMapping(comps, id, name) ==
    [i \in DOMAIN comps |->
        IF comps[i].id = id
        THEN [comps[i] EXCEPT !.fieldMapping = name]
        ELSE comps[i]]

\* The loop of AIPDFAnalyzer.findLabelDataPairs over the labels.  st holds the
\* pairs so far, the set usedDataComponents and the components, whose
\* fieldMapping the loop sets on the data of each accepted pair.
RECURSIVE PairLoop(_, _, _)
PairLoop(labels, dataComponents, st) ==
    IF labels = <<>> THEN st
    ELSE LET label == Head(labels)
             candidates == SelectSeq(dataComponents, LAMBDA data :
                               data.id \notin st.used /\ IsCandidate(label, data))
             distSq == [i \in {c.id : c \in Range(candidates)} |->
                           CenterDistSq(label, CHOOSE c \in Range(candidates) : c.id = i)]
             closest == ReduceClosest(Head(candidates), Tail(candidates), distSq)
         IN IF candidates # <<>> /\ ProximityAbove(distSq[closest.id], 2, 4)
            THEN PairLoop(Tail(labels), dataComponents,
                          [pairs |-> Append(st.pairs, [label |-> label.id, data |-> closest.id,
                                                       distSq |-> distSq[closest.id]]),
                           used |-> st.used \cup {closest.id},
                           components |-> SetFieldMapping(st.components, closest.id,
                                                          generateFieldName(label.text))])
            ELSE PairLoop(Tail(labels), dataComponents, st)

HasLabel(c, labels) == c.aiClassification.label \in labels

\* findLabelDataPairs(components): [pairs, used, components]
findLabelDataPairs(comps) ==
    PairLoop(SelectSeq(comps, LAMBDA c : HasLabel(c, {"static-label", "form-label"})),
             SelectSeq(comps, LAMBDA c : HasLabel(c, {"dynamic-data", "table-data"})),
             [pairs |-> <<>>, used |-> {}, components |-> comps])

\* ---- the earlier revision (src/unnamed/part_004): corner distances, no
\* set of used data components ----
LegacyIsCandidate(label, data) ==
    \/ data.x > label.x /\ Abs(data.y - label.y) < 20
    \/ data.y > label.y /\ Abs(data.x - label.x) < 20

LegacyPairMaxDistance == 200

RECURSIVE LegacyPairLoop(_, _, _)
LegacyPairLoop(labels, dataComponents, pairs) ==
    IF labels = <<>> THEN pairs
    ELSE LET label == Head(labels)
             candidates == SelectSeq(dataComponents, LAMBDA data : LegacyIsCandidate(label, data))
             distSq == [i \in {c.id : c \in Range(candidates)} |->
                           CornerDistSq(label, CHOOSE c \in Range(candidates) : c.id = i)]
             closest == ReduceClosest(Head(candidates), Tail(candidates), distSq)
         IN \* confidence = max(0, 1 - distance / 200) > 0.5
            IF candidates # <<>> /\ 4 * distSq[closest.id] < Square(LegacyPairMaxDistance)
            THEN LegacyPairLoop(Tail(labels), dataComponents,
                                Append(pairs, [label |-> label.id, data |-> closest.id,
                                               distSq |-> distSq[closest.id]]))
            ELSE LegacyPairLoop(Tail(labels), dataComponents, pairs)

legacyFindLabelDataPairs(comps) ==
    LegacyPairLoop(SelectSeq(comps, LAMBDA c : HasLabel(c, {"static-label"})),
                   SelectSeq(comps, LAMBDA c : HasLabel(c, {"dynamic-data"})),
                   <<>>)

\* ---- EnhancedPDFParser ----
isValidLabelDataPair(label, data) ==
    LET isToRight == data.x > label.x + label.width /\ Abs(data.y - label.y) < 30
        isBelow == data.y > label.y + label.height /\ Abs(data.x - label.x) < 100
    IN CornerDistSq(label, data) <= Square(PairMaxDistance) /\ (isToRight \/ isBelow)

SetPairedWith(pairedWith, a, b) ==
    [i \in DOMAIN pairedWith |-> IF i = a THEN b ELSE IF i = b THEN a ELSE pairedWith[i]]

\* a plausible slip: only the label is marked
SetPairedWithOneWay(pairedWith, a, b) ==
    [i \in DOMAIN pairedWith |-> IF i = a THEN b ELSE pairedWith[i]]

\* label.pairedWith = closest; closest.pairedWith = label
MarkPaired(pairedWith, label, closest) == SetPairedWith(pairedWith, label, closest)

\* The loop of findEnhancedLabelDataPairs; st holds the pairs, the set
\* usedDataComponents and the pairedWith field of every header component.
RECURSIVE EnhancedPairLoop(_, _, _)
EnhancedPairLoop(labels, dataComponents, st) ==
    IF labels = <<>> THEN st
    ELSE LET label == Head(labels)
             candidates == SelectSeq(dataComponents, LAMBDA data :
                               data.id \notin st.used /\ isValidLabelDataPair(label, data))
             distSq == [i \in {c.id : c \in Range(candidates)} |->
                           CornerDistSq(label, CHOOSE c \in Range(candidates) : c.id = i)]
             closest == ReduceClosest(Head(candidates), Tail(candidates), distSq)
         IN IF candidates # <<>> /\ ProximityAbove(distSq[closest.id], 1, 3)
            THEN EnhancedPairLoop(Tail(labels), dataComponents,
                          [pairs |-> Append(st.pairs, [label |-> label.id, data |-> closest.id,
                                                       distSq |-> distSq[closest.id]]),
                           used |-> st.used \cup {closest.id},
                           pairedWith |-> MarkPaired(st.pairedWith, label.id, closest.id)])
            ELSE EnhancedPairLoop(Tail(labels), dataComponents, st)

findEnhancedLabelDataPairs(labels, dataComponents, ids) ==
    EnhancedPairLoop(labels, dataComponents,
                     [pairs |-> <<>>, used |-> {}, pairedWith |-> [i \in ids |-> Unpaired]])

\* a plausible slip: no test for the empty list, and 0 / 0 is returned
calculateAverageConfidenceUnguarded(comps) ==
    [num |-> SumSeq([i \in DOMAIN comps |-> comps[i].confidence]),
     den |-> Len(comps)]

\* calculateAverageConfidence: total / length as the fraction [num, den]; 0 for no components
calculateAverageConfidence(comps) ==
    IF comps = <<>> THEN [num |-> 0, den |-> 1]
    ELSE [num |-> SumSeq([i \in DOMAIN comps |-> comps[i].confidence]),
          den |-> Len(comps)]

\* the HeaderComponent createSmartHeaderAnalysis builds from a component
HeaderComponentOf(component, region) ==
    [id |-> component.id,
     type |-> component.aiClassification.label,
     text |-> component.text,
     x |-> component.x,
     y |-> component.y,
     width |-> component.width,
     height |-> component.height,
     fontSize |-> component.fontSize,
     fontWeight |-> component.fontWeight,
     \* component.aiClassification?.score || 0.5 : a score of 0 gives 0.5
     confidence |-> IF component.aiClassification.score = 0 THEN 5000
                    ELSE component.aiClassification.score,
     rdlRegion |-> region,
     fieldMapping |-> component.fieldMapping]

\* createSmartHeaderAnalysis(headerComponents)
createSmartHeaderAnalysis(headerComponents) ==
    LET converted == [i \in DOMAIN headerComponents |-> HeaderComponentOf(headerComponents[i], "header")]
        staticLabels == SelectSeq(converted, LAMBDA h : h.type \in {"static-label", "form-label"})
        dynamicData == SelectSeq(converted, LAMBDA h : h.type = "dynamic-data")
        tableHeaders == SelectSeq(converted, LAMBDA h : h.type = "table-header")
        standaloneText == SelectSeq(converted, LAMBDA h :
                              h.type \notin {"static-label", "form-label", "dynamic-data", "table-header"})
        paired == findEnhancedLabelDataPairs(staticLabels, dynamicData \o standaloneText,
                                             {h.id : h \in Range(converted)})
    IN [staticLabels |-> Ids(staticLabels),
        dynamicData |-> Ids(dynamicData),
        standaloneText |-> Ids(standaloneText),
        tableHeaders |-> Ids(tableHeaders),
        labelDataPairs |-> paired.pairs,
        pairedWith |-> paired.pairedWith,
        confidence |-> calculateAverageConfidence(staticLabels \o dynamicData \o standaloneText \o tableHeaders)]

\* ------------------------------------------------------------------------
\* generateFieldMappings
\* ------------------------------------------------------------------------
DigitChars == <<"0","1","2","3","4","5","6","7","8","9">>
RECURSIVE NatToText(_)
NatToText(n) == IF n < 10 THEN <<DigitChars[n + 1]>>
                ELSE NatToText(n \div 10) \o <<DigitChars[(n % 10) + 1]>>

\* fieldMappings[key] = value: a later write to the same key replaces the value
Put(map, key, value) ==
    [k \in (DOMAIN map) \cup {key} |-> IF k = key THEN value ELSE map[k]]

\* the key `Table${tableIndex}_${fieldName}`
TableKey(tableIndex, fieldName) ==
    <<"T","a","b","l","e">> \o NatToText(tableIndex) \o <<"_">> \o fieldName

ComponentById(comps, id) == CHOOSE c \in Range(comps) : c.id = id

\* The first loop of generateFieldMappings, over the headers of every table
\* (flattened to <<tableIndex, header id>>): st is [map, components]
RECURSIVE HeaderMappingLoop(_, _)
HeaderMappingLoop(headers, st) ==
    IF headers = <<>> THEN st
    ELSE LET tableIndex == Head(headers)[1]
             id == Head(headers)[2]
             fieldName == generateFieldName(ComponentById(st.components, id).text)
         IN HeaderMappingLoop(Tail(headers),
                [map |-> Put(st.map, TableKey(tableIndex, fieldName), fieldName),
                 components |-> SetFieldMapping(st.components, id, fieldName)])

\* The second loop, over the components: if (component.fieldMapping) ...
RECURSIVE ComponentMappingLoop(_, _)
ComponentMappingLoop(comps, map) ==
    IF comps = <<>> THEN map
    ELSE LET component == Head(comps)
         IN ComponentMappingLoop(Tail(comps),
                IF component.fieldMapping # Undefined /\ component.fieldMapping # <<>>
                THEN Put(map, component.text, component.fieldMapping)
                ELSE map)

\* generateFieldMappings(components, tables): [map, components]
generateFieldMappings(comps, tbls) ==
    LET headers == JoinAll([t \in DOMAIN tbls |->
                       [h \in DOMAIN tbls[t].headers |-> <<t - 1, tbls[t].headers[h]>>]])
        afterHeaders == HeaderMappingLoop(headers, [map |-> <<>>, components |-> comps])
    IN [map |-> ComponentMappingLoop(afterHeaders.components, afterHeaders.map),
        components |-> afterHeaders.components]

\* ------------------------------------------------------------------------
\* PDFParser.analyzeLayout (src/unnamed/part_005): the three sections
\* ------------------------------------------------------------------------
\* headerThreshold = pageHeight * 0.2, bodyEndThreshold = pageHeight * 0.8
LayoutHeaderItems(textItems, height) ==
    SelectSeq(textItems, LAMBDA item : 10 * item.y <= 2 * height)
LayoutBodyItems(textItems, height) ==
    SelectSeq(textItems, LAMBDA item : 10 * item.y > 2 * height /\ 10 * item.y <= 8 * height)
LayoutFooterItems(textItems, height) ==
    SelectSeq(textItems, LAMBDA item : 10 * item.y > 8 * height)

\* ---- analyzeContext of the earlier revision (src/unnamed/part_004) ----
LegacyContextProximity == 100

legacyAnalyzeContext(component, allComponents) ==
    LET nearby == SelectSeq(allComponents, LAMBDA other :
                      /\ other.id # component.id
                      /\ CornerDistSq(component, other) < Square(LegacyContextProximity))
        rightComponents == SelectSeq(nearby, LAMBDA c : c.x > component.x)
        leftComponents == SelectSeq(nearby, LAMBDA c : c.x < component.x)
        belowComponents == SelectSeq(nearby, LAMBDA c : c.y > component.y)
        aboveComponents == SelectSeq(nearby, LAMBDA c : c.y < component.y)
    IN IF rightComponents # <<>> THEN "right"
       ELSE IF leftComponents # <<>> THEN "left"
       ELSE IF belowComponents # <<>> THEN "below"
       ELSE IF aboveComponents # <<>> THEN "above"
       ELSE "isolated"

\* ---- the textbox projections ----
\* (points / 72).toFixed(4), in 1/10000 in: points * 10000 / 72, rounded to the nearest
InchesFixed4(points) == (points * 10000 + 36) \div 72

\* AIPDFAnalyzer.convertToRDLFormats(analysisResult).headerTextboxes: width
\* and height of every header component, as formatted
convertToRDLFormats(headerComponents) ==
    [i \in DOMAIN headerComponents |->
        [id |-> headerComponents[i].id,
         width |-> InchesFixed4(headerComponents[i].width),
         height |-> InchesFixed4(headerComponents[i].height)]]

\* ------------------------------------------------------------------------
\* The analysis of one page as a state machine
\* ------------------------------------------------------------------------
Item(text, x, y, width, height, fontSize, fontWeight) ==
    [text |-> text, x |-> x, y |-> y, width |-> width, height |-> height,
     fontSize |-> fontSize, fontWeight |-> fontWeight]

\* the items of a list, each with its place in the list as its identity
WithIds(items) ==
    [i \in DOMAIN items |->
        [id |-> i, text |-> items[i].text, x |-> items[i].x, y |-> items[i].y,
         width |-> items[i].width, height |-> items[i].height,
         fontSize |-> items[i].fontSize, fontWeight |-> items[i].fontWeight]]

NoAnalysis == [headerComponents |-> <<>>, bodyComponents |-> <<>>, footerComponents |-> <<>>]
NoHeaderAnalysis ==
    [staticLabels |-> <<>>, dynamicData |-> <<>>, standaloneText |-> <<>>, tableHeaders |-> <<>>,
     labelDataPairs |-> <<>>, pairedWith |-> <<>>, confidence |-> [num |-> 0, den |-> 1]]
NoSections == [header |-> <<>>, body |-> <<>>, footer |-> <<>>]

\* nothing analyzed yet
PipelineStart(items, height, response) ==
    /\ pc = "start"
    /\ components = WithIds(items)
    /\ pageHeight = height
    /\ textClassifier = Null
    /\ aiResponse = response
    /\ classifiedComponents = <<>>
    /\ structuredComponents = <<>>
    /\ tables = <<>>
    /\ labelDataPairs = <<>>
    /\ fieldMappings = <<>>
    /\ analysis = NoAnalysis
    /\ headerAnalysis = NoHeaderAnalysis
    /\ sections = NoSections
    /\ settled = {}
    /\ headerTextboxes = <<>>

PipelineIdle == PipelineStart(<<>>, 0, Throw)

FieldNameIdle ==
    /\ fnWho = Null
    /\ fnIn = <<>>
    /\ fnOut = <<>>

\* no document: useState(null), useState(''), useState(false), useState([])
NoFile == 0

\* No call of initializeModel has been made
MaxCallers == 3
Callers == 1..MaxCallers
NotCalled == [at |-> "idle", sawLoading |-> FALSE, sawClassifier |-> Null]
LoadIdle ==
    /\ isLoading = FALSE
    /\ initCalls = [c \in Callers |-> NotCalled]

\* The Upload tab is shown and there is no field to edit
EditorIdle ==
    /\ activeTab = "upload"
    /\ fields = <<>>
    /\ editorMounted = FALSE
    /\ history = <<>>
    /\ historyIndex = 0

UIIdle ==
    /\ selectedFile = NoFile
    /\ baseRDLContent = FALSE
    /\ isAnalyzing = FALSE
    /\ analyzedFile = NoFile
    /\ analysisResult = NoFile
    /\ enhancedAnalysis = NoFile
    /\ editableFields = NoFile
    /\ executableRDL = NoFile

\* initializeModel, as analyzeDocument awaits it: the pipeline is loaded, or
\* both attempts fail and the classifier stays null
InitializeModel ==
    /\ pc = "start"
    /\ \E loaded \in {Null, "loaded"} : textClassifier' = loaded
    /\ pc' = "initialized"
    /\ UNCHANGED <<components, pageHeight, aiResponse, classifiedComponents, structuredComponents,
                   tables, labelDataPairs, fieldMappings, analysis, headerAnalysis, sections>>
    /\ UNCHANGED <<settled, headerTextboxes>>
    /\ UNCHANGED <<fnVars, uiVars, loadVars, editVars>>

\* The classifier's answer that never comes: the promise of the call neither
\* resolves nor rejects
Stall == [top |-> "stall", score |-> 0]

\* classifyTextComponent awaits the classifier for this component: the rules
\* are not sure (score 0.8 or less) and the classifier is loaded
AwaitsClassifier(component, classifier) ==
    /\ classifier # Null
    /\ enhancedRuleBasedClassification(Trim(component.text), component, NoContext).score <= 8000

\* some classifyTextComponent awaits an answer that never comes; there is no
\* timeout on the await, and Promise.all resolves only when every call has
Stalled ==
    /\ aiResponse = Stall
    /\ \E i \in DOMAIN components : AwaitsClassifier(components[i], textClassifier)

\* analyzeComponents: every component copied with its classification and
\* context
analyzeComponents(comps, classifier, response) ==
    [i \in DOMAIN comps |->
        [id |-> comps[i].id,
         text |-> comps[i].text,
         x |-> comps[i].x,
         y |-> comps[i].y,
         width |-> comps[i].width,
         height |-> comps[i].height,
         fontSize |-> comps[i].fontSize,
         fontWeight |-> comps[i].fontWeight,
         aiClassification |-> classifyTextComponent(comps[i], classifier, response),
         context |-> [position |-> analyzeContext(comps[i], comps),
                      isInTable |-> FALSE, tableColumn |-> -1, tableRow |-> -1]]]

\* await analyzeComponents(components), once every classifyTextComponent has
\* resolved
AnalyzeComponents ==
    /\ pc = "initialized"
    /\ ~Stalled
    /\ classifiedComponents' = analyzeComponents(components, textClassifier, aiResponse)
    /\ pc' = "classified"
    /\ UNCHANGED <<components, pageHeight, textClassifier, aiResponse, structuredComponents,
                   tables, labelDataPairs, fieldMappings, analysis, headerAnalysis, sections>>
    /\ settled' = DOMAIN components
    /\ UNCHANGED headerTextboxes
    /\ UNCHANGED <<fnVars, uiVars, loadVars, editVars>>

AnalyzeDocumentStructure ==
    /\ pc = "classified"
    /\ structuredComponents' = analyzeDocumentStructure(classifiedComponents)
    /\ pc' = "structured"
    /\ UNCHANGED <<components, pageHeight, textClassifier, aiResponse, classifiedComponents,
                   tables, labelDataPairs, fieldMappings, analysis, headerAnalysis, sections>>
    /\ UNCHANGED <<settled, headerTextboxes>>
    /\ UNCHANGED <<fnVars, uiVars, loadVars, editVars>>

\* detectTables: the tables, and the table context written into the components
DetectTables ==
    /\ pc = "structured"
    /\ LET found == detectedTables(structuredComponents)
       IN /\ tables' = found
          /\ structuredComponents' =
                 [i \in DOMAIN structuredComponents |->
                     [structuredComponents[i] EXCEPT
                         !.context = TableContextOf(structuredComponents[i], found)]]
    /\ pc' = "tables"
    /\ UNCHANGED <<components, pageHeight, textClassifier, aiResponse, classifiedComponents,
                   labelDataPairs, fieldMappings, analysis, headerAnalysis, sections>>
    /\ UNCHANGED <<settled, headerTextboxes>>
    /\ UNCHANGED <<fnVars, uiVars, loadVars, editVars>>

\* findLabelDataPairs: the pairs, and the fieldMapping written into the data components
FindLabelDataPairs ==
    /\ pc = "tables"
    /\ LET result == findLabelDataPairs(structuredComponents)
       IN /\ labelDataPairs' = result.pairs
          /\ structuredComponents' = result.components
    /\ pc' = "paired"
    /\ UNCHANGED <<components, pageHeight, textClassifier, aiResponse, classifiedComponents,
                   tables, fieldMappings, analysis, headerAnalysis, sections>>
    /\ UNCHANGED <<settled, headerTextboxes>>
    /\ UNCHANGED <<fnVars, uiVars, loadVars, editVars>>

\* generateFieldMappings: the table, and the fieldMapping written into the table headers
GenerateFieldMappings ==
    /\ pc = "paired"
    /\ LET result == generateFieldMappings(structuredComponents, tables)
       IN /\ fieldMappings' = result.map
          /\ structuredComponents' = result.components
    /\ pc' = "mapped"
    /\ UNCHANGED <<components, pageHeight, textClassifier, aiResponse, classifiedComponents,
                   tables, labelDataPairs, analysis, headerAnalysis, sections>>
    /\ UNCHANGED <<settled, headerTextboxes>>
    /\ UNCHANGED <<fnVars, uiVars, loadVars, editVars>>

RegionIs(c, region) == "rdlType" \in DOMAIN c /\ c.rdlType = region

headerComponentsOf(structured) == Ids(SelectSeq(structured, LAMBDA c : RegionIs(c, "header")))
bodyComponentsOf(structured) == Ids(SelectSeq(structured, LAMBDA c : RegionIs(c, "body")))

\* a plausible slip: the footer list filtered by position instead of by rdlType
footerComponentsByPosition(structured) ==
    Ids(SelectSeq(structured, LAMBDA c :
        /\ "rdlType" \in DOMAIN c
        /\ 100 * (PageMaxY(structured) - (c.y + c.height))
               < 15 * (PageMaxY(structured) - PageMinY(structured))))
footerComponentsOf(structured) == Ids(SelectSeq(structured, LAMBDA c : RegionIs(c, "footer")))

\* Step 6 of analyzeDocument and its return
ReturnAnalysis ==
    /\ pc = "mapped"
    /\ analysis' = [headerComponents |-> headerComponentsOf(structuredComponents),
                    bodyComponents |-> bodyComponentsOf(structuredComponents),
                    footerComponents |-> footerComponentsOf(structuredComponents)]
    /\ pc' = "analyzed"
    /\ UNCHANGED <<components, pageHeight, textClassifier, aiResponse, classifiedComponents,
                   structuredComponents, tables, labelDataPairs, fieldMappings, headerAnalysis,
                   sections>>
    /\ UNCHANGED <<settled, headerTextboxes>>
    /\ UNCHANGED <<fnVars, uiVars, loadVars, editVars>>

\* EnhancedPDFParser.processAIAnalysisResults: the header analysis, and the
\* headerTextboxes of createRDLCompatibleStructures
ProcessAIAnalysisResults ==
    /\ pc = "analyzed"
    /\ headerAnalysis' = createSmartHeaderAnalysis(
           SelectSeq(structuredComponents, LAMBDA c : RegionIs(c, "header")))
    /\ pc' = "processed"
    /\ UNCHANGED <<components, pageHeight, textClassifier, aiResponse, classifiedComponents,
                   structuredComponents, tables, labelDataPairs, fieldMappings, analysis,
                   sections>>
    /\ headerTextboxes' = convertToRDLFormats(
           SelectSeq(structuredComponents, LAMBDA c : RegionIs(c, "header")))
    /\ UNCHANGED settled
    /\ UNCHANGED <<fnVars, uiVars, loadVars, editVars>>

\* PDFParser.analyzeLayout, which analyzePDF runs after the enhanced analysis
AnalyzeLayout ==
    /\ pc = "processed"
    /\ sections' = [header |-> Ids(LayoutHeaderItems(components, pageHeight)),
                    body |-> Ids(LayoutBodyItems(components, pageHeight)),
                    footer |-> Ids(LayoutFooterItems(components, pageHeight))]
    /\ pc' = "done"
    /\ UNCHANGED <<components, pageHeight, textClassifier, aiResponse, classifiedComponents,
                   structuredComponents, tables, labelDataPairs, fieldMappings, analysis,
                   headerAnalysis>>
    /\ UNCHANGED <<settled, headerTextboxes>>
    /\ UNCHANGED <<fnVars, uiVars, loadVars, editVars>>

Next ==
    \/ InitializeModel
    \/ AnalyzeComponents
    \/ AnalyzeDocumentStructure
    \/ DetectTables
    \/ FindLabelDataPairs
    \/ GenerateFieldMappings
    \/ ReturnAnalysis
    \/ ProcessAIAnalysisResults
    \/ AnalyzeLayout

\* ------------------------------------------------------------------------
\* Inputs of the analysis
\* ------------------------------------------------------------------------
\* Bounds of the page analysis
MaxItems == 3

TextTO == <<"T","O",":">>
Text7 == <<"7">>
TextHi == <<"H","i">>

\* Positions: two in one row at the top of the page, one mid-page, one at the
\* foot; every item is 40 wide and 12 high, in a 12pt normal font
PagePositions == {<<50, 20>>, <<120, 22>>, <<50, 400>>, <<120, 700>>}
PageTexts == {TextTO, Text7}
PageItems == {Item(t, p[1], p[2], 40, 12, 12, "Normal") : t \in PageTexts, p \in PagePositions}

RECURSIVE ListsUpTo(_, _)
ListsUpTo(S, n) ==
    IF n = 0 THEN {<<>>}
    ELSE LET shorter == ListsUpTo(S, n - 1)
         IN shorter \cup {Append(q, e) : q \in {r \in shorter : Len(r) = n - 1}, e \in S}

ZeroShot(top, score) == [top |-> top, score |-> score]
PageResponses == {Throw, ZeroShot("form label", 7500), ZeroShot("data value", 10000)}
PageHeights == {792}

Init ==
    /\ FieldNameIdle
    /\ UIIdle
    /\ LoadIdle
    /\ EditorIdle
    /\ \E items \in ListsUpTo(PageItems, MaxItems) :
       \E height \in PageHeights :
       \E response \in PageResponses :
           PipelineStart(items, height, response)

Spec == Init /\ [][Next]_vars

\* Bounds of the inputs of the field-name generators
MaxTextLen == 3
MaxApplications == 2
FieldChars == {"a", "B", "7", " ", "#", "_"}

RECURSIVE TextsUpTo(_)
TextsUpTo(n) ==
    IF n = 0 THEN {<<>>}
    ELSE LET shorter == TextsUpTo(n - 1)
         IN shorter \cup {Append(t, c) : t \in {s \in shorter : Len(s) = n - 1}, c \in FieldChars}

FieldTexts == TextsUpTo(MaxTextLen)

InitFieldName ==
    /\ PipelineIdle
    /\ UIIdle
    /\ LoadIdle
    /\ EditorIdle
    /\ fnWho \in Generators
    /\ fnIn \in FieldTexts
    /\ fnOut = <<>>

\* One call of the generator: on the input text first, then on its own output
ApplyFieldName ==
    /\ Len(fnOut) < MaxApplications
    /\ fnOut' = Append(fnOut, ApplyGenerator(fnWho, IF fnOut = <<>> THEN fnIn ELSE fnOut[Len(fnOut)]))
    /\ UNCHANGED <<fnWho, fnIn>>
    /\ UNCHANGED <<pipeVars, uiVars, loadVars, editVars>>

NextFieldName == ApplyFieldName

SpecFieldName == InitFieldName /\ [][NextFieldName]_vars

\* ------------------------------------------------------------------------
\* Pages with a table: the same analysis, started on items laid out on a grid
\* ------------------------------------------------------------------------
MaxTableItems == 7

TextQty == <<"Q","T","Y">>
TableXs == <<0, 10, 100>>
TableYs == <<0, 30, 36, 60>>

\* the grid places in reading order
TablePlaces == [k \in 1..(Len(TableYs) * Len(TableXs)) |->
                   [x |-> TableXs[((k - 1) % Len(TableXs)) + 1],
                    y |-> TableYs[((k - 1) \div Len(TableXs)) + 1]]]

\* one item on every chosen place, in reading order: a header word on the top
\* line, a number elsewhere
TableItemsAt(places) ==
    LET chosen == SelectSeq(TablePlaces, LAMBDA p : p \in places)
    IN [i \in DOMAIN chosen |->
           Item(IF chosen[i].y = TableYs[1] THEN TextQty ELSE Text7,
                chosen[i].x, chosen[i].y, 40, 12, 12, "Normal")]

InitTables ==
    /\ FieldNameIdle
    /\ UIIdle
    /\ LoadIdle
    /\ EditorIdle
    /\ \E places \in SUBSET Range(TablePlaces) :
           /\ Cardinality(places) <= MaxTableItems
           /\ PipelineStart(TableItemsAt(places), 792, Throw)

SpecTables == InitTables /\ [][Next]_vars

\* ------------------------------------------------------------------------
\* One component classified: the same analysis, started on a single item,
\* over a vocabulary of texts, both font weights, two font sizes and every
\* answer of the classifier
\* ------------------------------------------------------------------------
TextTOTAL == <<"T","O","T","A","L">>
TextTotalMixed == <<"T","o","t","a","l">>
TextDESCRIPTION == <<"D","E","S","C","R","I","P","T","I","O","N">>
TextPRICE == <<"P","R","I","C","E">>
TextAMOUNT == <<"A","M","O","U","N","T">>
TextHiColon == <<"H","i",":">>
TextHey == <<"h","e","y">>

TableHeaderWords == {TextTOTAL, TextTotalMixed, TextQty, TextDESCRIPTION, TextPRICE, TextAMOUNT}
ClassifyTexts == TableHeaderWords \cup {TextTO, Text7, TextHi, TextHiColon, TextHey}
ClassifyScores == {0, 5000, 7500, 10000}
ClassifyResponses ==
    {Throw} \cup {ZeroShot(top, score) : top \in CandidateLabels \cup {"other"}, score \in ClassifyScores}

InitClassify ==
    /\ FieldNameIdle
    /\ UIIdle
    /\ LoadIdle
    /\ EditorIdle
    /\ \E text \in ClassifyTexts :
       \E fontWeight \in {"Normal", "bold"} :
       \E fontSize \in {12, 16} :
       \E response \in ClassifyResponses :
           PipelineStart(<<Item(text, 50, 20, 40, fontSize, fontSize, fontWeight)>>, 792, response)

SpecClassify == InitClassify /\ [][Next]_vars

\* ------------------------------------------------------------------------
\* The earlier revision of the analyzer (src/unnamed/part_004):
\* analyzeComponents, then findLabelDataPairs
\* ------------------------------------------------------------------------
LegacyAnalyzeComponents ==
    /\ pc = "start"
    /\ \E loaded \in {Null, "loaded"} :
           /\ textClassifier' = loaded
           /\ classifiedComponents' =
                  [i \in DOMAIN components |->
                      [id |-> components[i].id,
                       text |-> components[i].text,
                       x |-> components[i].x,
                       y |-> components[i].y,
                       width |-> components[i].width,
                       height |-> components[i].height,
                       fontSize |-> components[i].fontSize,
                       fontWeight |-> components[i].fontWeight,
                       aiClassification |->
                           legacyClassifyTextComponent(components[i], loaded, aiResponse),
                       context |-> [position |-> legacyAnalyzeContext(components[i], components)]]]
    /\ pc' = "classified"
    /\ UNCHANGED <<components, pageHeight, aiResponse, structuredComponents, tables,
                   labelDataPairs, fieldMappings, analysis, headerAnalysis, sections>>
    /\ settled' = DOMAIN components
    /\ UNCHANGED headerTextboxes
    /\ UNCHANGED <<fnVars, uiVars, loadVars, editVars>>

LegacyFindLabelDataPairs ==
    /\ pc = "classified"
    /\ labelDataPairs' = legacyFindLabelDataPairs(classifiedComponents)
    /\ pc' = "paired"
    /\ UNCHANGED <<components, pageHeight, textClassifier, aiResponse, classifiedComponents,
                   structuredComponents, tables, fieldMappings, analysis, headerAnalysis,
                   sections>>
    /\ UNCHANGED <<settled, headerTextboxes>>
    /\ UNCHANGED <<fnVars, uiVars, loadVars, editVars>>

NextLegacy ==
    \/ LegacyAnalyzeComponents
    \/ LegacyFindLabelDataPairs

\* Legacy inputs: a label word, a number and a table-header word, on one line
LegacyPositions == {<<50, 20>>, <<50, 30>>, <<120, 22>>}
LegacyTexts == {TextTO, Text7, TextTOTAL}
LegacyItems == {Item(t, p[1], p[2], 40, 12, 12, "Normal") : t \in LegacyTexts, p \in LegacyPositions}
Sentiment(label, score) == [label |-> label, score |-> score]
LegacySentiments == {SentimentThrow, Sentiment("POSITIVE", 9000), Sentiment("NEGATIVE", 9000)}

InitLegacy ==
    /\ FieldNameIdle
    /\ UIIdle
    /\ LoadIdle
    /\ EditorIdle
    /\ \E items \in ListsUpTo(LegacyItems, MaxItems) :
       \E sentiment \in LegacySentiments :
           PipelineStart(items, 792, sentiment)

SpecLegacy == InitLegacy /\ [][NextLegacy]_vars

\* ------------------------------------------------------------------------
\* Properties
\* ------------------------------------------------------------------------
Regions == {"header", "body", "footer"}
AllIds == {components[i].id : i \in DOMAIN components}

\* the lists are pairwise disjoint, hold nothing twice, and together hold every id
Partition(lists, ids) ==
    /\ \A k \in DOMAIN lists : \A i, j \in DOMAIN lists[k] : lists[k][i] = lists[k][j] => i = j
    /\ \A k, l \in DOMAIN lists : k # l => Range(lists[k]) \cap Range(lists[l]) = {}
    /\ UNION {Range(lists[k]) : k \in DOMAIN lists} = ids

\* C1 (region partition totality): once analyzeDocument has returned, every
\* component carries exactly one rdlType out of header, body and footer, and
\* headerComponents, bodyComponents and footerComponents are pairwise
\* disjoint and together hold every input item; the header, body and footer
\* items of PDFParser.analyzeLayout partition the input items as well.
RegionPartition ==
    /\ pc \in {"analyzed", "processed", "done"} =>
           /\ \A i \in DOMAIN structuredComponents : structuredComponents[i].rdlType \in Regions
           /\ Ids(structuredComponents) = Ids(components)
           /\ Partition(<<analysis.headerComponents, analysis.bodyComponents,
                          analysis.footerComponents>>, AllIds)
    /\ pc = "done" =>
           Partition(<<sections.header, sections.body, sections.footer>>, AllIds)

\* a page of three items, one in each region, for both analyses
RegionPartitionWitness ==
    /\ pc = "done"
    /\ Len(components) = 3
    /\ Len(analysis.headerComponents) = 1
    /\ Len(analysis.bodyComponents) = 1
    /\ Len(analysis.footerComponents) = 1
    /\ Len(sections.header) = 1
    /\ Len(sections.body) = 1
    /\ Len(sections.footer) = 1

\* every id is in at most one pair of the list, as a label or as a data
InOnePairAtMost(pairs) ==
    \A i, j \in DOMAIN pairs :
        {pairs[i].label, pairs[i].data} \cap {pairs[j].label, pairs[j].data} # {} => i = j

\* the pairedWith of a component; the components of AIPDFAnalyzer have no such field
PairedWithOf(c) == IF "pairedWith" \in DOMAIN c THEN c.pairedWith ELSE Unpaired

PairingExclusivity ==
    pc = "paired" =>
        \A i, j \in DOMAIN labelDataPairs :
            labelDataPairs[i].data = labelDataPairs[j].data => i = j

AfterDetectTables == pc \in {"tables", "paired", "mapped", "analyzed", "processed", "done"}

\* C4 (table row width): in every TableStructure of detectTables every data
\* row has at most columnCount items.
TableRowWidth ==
    AfterDetectTables =>
        \A t \in DOMAIN tables : \A r \in DOMAIN tables[t].rows :
            Len(tables[t].rows[r]) <= tables[t].columnCount

\* C5 (table counts): in every TableStructure of detectTables columnCount is
\* the number of headers and rowCount the number of data rows.
TableCounts ==
    AfterDetectTables =>
        \A t \in DOMAIN tables :
            /\ tables[t].columnCount = Len(tables[t].headers)
            /\ tables[t].rowCount = Len(tables[t].rows)

\* a table of two data rows, one of them of another width than the header row
TableCountsWitness ==
    /\ pc = "done"
    /\ \E t \in DOMAIN tables :
           /\ Len(tables[t].rows) = 2
           /\ \E r \in DOMAIN tables[t].rows : Len(tables[t].rows[r]) # Len(tables[t].headers)

\* the box of the component of an id lies within the rectangle
BoxWithin(id, bounds) ==
    LET c == structuredComponents[id]
    IN /\ bounds.x <= c.x
       /\ bounds.y <= c.y
       /\ c.x + c.width <= bounds.x + bounds.width
       /\ c.y + c.height <= bounds.y + bounds.height

NoAlnum(text) == \A i \in DOMAIN text : ~IsAlnum(text[i])

\* C7 (field-name fallback): the field-name generator never returns the empty
\* string, and for a text that is empty, whitespace only or made only of
\* non-alphanumeric symbols it returns Field1.
FieldNameFallback ==
    Len(fnOut) >= 1 =>
        /\ fnOut[1] # <<>>
        /\ NoAlnum(fnIn) => fnOut[1] = Field1

\* C8 (field-name idempotence): for every text t, fieldName(fieldName(t)) is
\* fieldName(t), for generateFieldName and for RDLGenerator.sanitizeFieldName.
FieldNameIdempotent ==
    (fnWho \in {"generateFieldName", "sanitizeFieldName"} /\ Len(fnOut) >= 2) =>
        fnOut[2] = fnOut[1]

AfterAnalyzeComponents ==
    pc \in {"classified", "structured", "tables", "paired", "mapped", "analyzed", "processed", "done"}

\* C9 (classifier confidence bounds): every classification score of a
\* component, whether from a rule tier, from the external classifier
\* (answering with a score in [0,1]) or from combining the two, lies in
\* [0,1], that is in 0..10000 ten-thousandths.
ConfidenceBounds ==
    AfterAnalyzeComponents =>
        \A i \in DOMAIN classifiedComponents :
            /\ classifiedComponents[i].aiClassification.score >= 0
            /\ classifiedComponents[i].aiClassification.score <= 10000
            /\ classifiedComponents[i].aiClassification.label \in Labels

\* a rule tier below 0.8 and the classifier agree, and their scores are
\* combined: 0.7 * 0.75 + 0.3 * 1 = 0.825
ConfidenceBoundsWitness ==
    /\ pc = "done"
    /\ textClassifier # Null
    /\ aiResponse = ZeroShot("table header", 10000)
    /\ \E i \in DOMAIN classifiedComponents :
           classifiedComponents[i].aiClassification = Result("table-header", 8250)

TableHeaderTokens == TableHeaderTokens1 \cup TableHeaderTokens2

\* C10 (tier priority): a text equal, whatever the case of its letters, to a
\* table-header token is never classified static-label by
\* classifyTextComponent; stated of the earlier revision
\* (src/unnamed/part_004), whose ruleBasedClassification has no table-header tier.
TierPriority ==
    pc \in {"classified", "paired"} =>
        \A i \in DOMAIN classifiedComponents :
            ToUpperCase(classifiedComponents[i].text) \in TableHeaderTokens =>
                classifiedComponents[i].aiClassification.label # "static-label"

\* ------------------------------------------------------------------------
\* The invoice header: the same analysis, started on the two items
\* "INVOICE #:" at (50,20) and "INV-2024-001" at (160,22), in either order,
\* in a 12pt normal font, for every answer of the classifier
\* ------------------------------------------------------------------------
TextInvoiceLabel == <<"I","N","V","O","I","C","E"," ","#",":">>
TextInvoiceNumber == <<"I","N","V","-","2","0","2","4","-","0","0","1">>
InvoiceLabelWidths == {40, 60}

InvoiceItems(labelWidth) ==
    <<Item(TextInvoiceLabel, 50, 20, labelWidth, 12, 12, "Normal"),
      Item(TextInvoiceNumber, 160, 22, 70, 12, 12, "Normal")>>

InitInvoice ==
    /\ FieldNameIdle
    /\ UIIdle
    /\ LoadIdle
    /\ EditorIdle
    /\ \E labelWidth \in InvoiceLabelWidths :
       \E reversed \in BOOLEAN :
       \E response \in ClassifyResponses :
           LET items == InvoiceItems(labelWidth)
           IN PipelineStart(IF reversed THEN <<items[2], items[1]>> ELSE items, 792, response)

SpecInvoice == InitInvoice /\ [][Next]_vars

\* the id of the component with a text (the texts of the page differ)
IdOfText(text) == CHOOSE i \in DOMAIN components : components[i].text = text

\* C11 (invoice scenario): given the two items "INVOICE #:" at (50,20) and
\* "INV-2024-001" at (160,22), the pipeline classifies the first static-label
\* and the second dynamic-data and emits one label-data pair for them, with a
\* proximity above 0.3.
InvoiceScenario ==
    pc \in {"processed", "done"} =>
        LET label == IdOfText(TextInvoiceLabel)
            data == IdOfText(TextInvoiceNumber)
        IN /\ structuredComponents[label].aiClassification.label = "static-label"
           /\ structuredComponents[data].aiClassification.label = "dynamic-data"
           /\ Len(headerAnalysis.labelDataPairs) = 1
           /\ headerAnalysis.labelDataPairs[1].label = label
           /\ headerAnalysis.labelDataPairs[1].data = data
           /\ ProximityAbove(headerAnalysis.labelDataPairs[1].distSq, 1, 3)

\* ------------------------------------------------------------------------
\* The four-column table: the same analysis, started on the header row
\* "Item", "Qty", "Price", "Total" and two data rows below it, every data
\* item at the X of its header
\* ------------------------------------------------------------------------
TextItem == <<"I","t","e","m">>
TextQtyMixed == <<"Q","t","y">>
TextPrice == <<"P","r","i","c","e">>
TextTotal == <<"T","o","t","a","l">>
ScenarioHeaders == <<TextItem, TextQtyMixed, TextPrice, TextTotal>>

\* the X of the four columns: evenly spaced, or not
ScenarioColumns == {<<50, 150, 250, 350>>, <<50, 200, 300, 350>>}
\* the distance from one row to the next
ScenarioRowPitches == {15, 30}
ScenarioCellTexts == {Text7, TextHi}
ScenarioHeaderWeights == {"Normal", "bold"}

ScenarioItems(columns, pitch, cell, weight) ==
    [k \in 1..12 |->
        LET row == (k - 1) \div 4
            col == ((k - 1) % 4) + 1
        IN Item(IF row = 0 THEN ScenarioHeaders[col] ELSE cell,
                columns[col], 100 + row * pitch, 40, 12, 12,
                IF row = 0 THEN weight ELSE "Normal")]

InitTableScenario ==
    /\ FieldNameIdle
    /\ UIIdle
    /\ LoadIdle
    /\ EditorIdle
    /\ \E columns \in ScenarioColumns :
       \E pitch \in ScenarioRowPitches :
       \E cell \in ScenarioCellTexts :
       \E weight \in ScenarioHeaderWeights :
           PipelineStart(ScenarioItems(columns, pitch, cell, weight), 792, Throw)

SpecTableScenario == InitTableScenario /\ [][Next]_vars

\* C12 (table scenario): for the header row "Item", "Qty", "Price", "Total"
\* followed by two data rows aligned with it, detectTables returns exactly
\* one TableStructure, with columnCount 4 and rowCount 2.
TableScenario ==
    AfterDetectTables =>
        /\ Len(tables) = 1
        /\ tables[1].columnCount = 4
        /\ tables[1].rowCount = 2

\* C13 (classifier failure absorbed): when the model failed to load, or the
\* classifier throws on every call, every component is returned with exactly
\* the label and score of the rule cascade alone, and the analysis runs on
\* to its end with them.
ClassifierFailureAbsorbed ==
    (AfterAnalyzeComponents /\ (textClassifier = Null \/ aiResponse = Throw)) =>
        /\ \A i \in DOMAIN classifiedComponents :
               classifiedComponents[i].aiClassification =
                   enhancedRuleBasedClassification(Trim(components[i].text), components[i], NoContext)
        /\ pc \in {"structured", "tables", "paired", "mapped", "analyzed", "processed", "done"} =>
               \A i \in DOMAIN structuredComponents :
                   structuredComponents[i].aiClassification = classifiedComponents[i].aiClassification

\* the classifier is loaded and throws on a component the rules are not
\* sure of (score 0.8 or less), and the analysis has ended
ClassifierFailureAbsorbedWitness ==
    /\ pc = "done"
    /\ textClassifier # Null
    /\ aiResponse = Throw
    /\ \E i \in DOMAIN classifiedComponents :
           classifiedComponents[i].aiClassification.score <= 8000

\* C14 (empty input): for an empty item list the analysis ends with empty
\* header, body and footer lists, no table, no label-data pair (from either
\* pairer), no field mapping and the overall confidence 0.
EmptyInput ==
    (components = <<>> /\ pc \in {"processed", "done"}) =>
        /\ analysis = NoAnalysis
        /\ tables = <<>>
        /\ labelDataPairs = <<>>
        /\ fieldMappings = <<>>
        /\ headerAnalysis.labelDataPairs = <<>>
        /\ headerAnalysis.staticLabels = <<>>
        /\ headerAnalysis.dynamicData = <<>>
        /\ headerAnalysis.confidence = [num |-> 0, den |-> 1]
        /\ pc = "done" => sections = NoSections

\* the analysis of the empty list has ended
EmptyInputWitness ==
    /\ components = <<>>
    /\ pc = "done"

\* ------------------------------------------------------------------------
\* A classifier that may never answer: the same analysis, started on a
\* single item, with the event loop running every continuation that is ready
\* ------------------------------------------------------------------------
StallResponses == {Stall, Throw, ZeroShot("form label", 7500)}

InitStall ==
    /\ FieldNameIdle
    /\ UIIdle
    /\ LoadIdle
    /\ EditorIdle
    /\ \E text \in ClassifyTexts :
       \E fontWeight \in {"Normal", "bold"} :
       \E response \in StallResponses :
           PipelineStart(<<Item(text, 50, 20, 40, 12, 12, fontWeight)>>, 792, response)

SpecStall == InitStall /\ [][Next]_vars /\ WF_vars(Next)

\* C15 (bounded wait on the external classifier): even when a classifier
\* call never resolves or rejects, analyzeDocument eventually completes.
AnalysisCompletes == <>(pc \in {"analyzed", "processed", "done"})

\* ------------------------------------------------------------------------
\* The same analysis with the calls of classifyTextComponent resolving one by
\* one, in any order: components.map starts one async call per component and
\* Promise.all joins them
\* ------------------------------------------------------------------------
\* the call for one component resolves (its answer came, or it needed none)
SettleOne ==
    /\ pc = "initialized"
    /\ \E i \in DOMAIN components \ settled :
           /\ ~(aiResponse = Stall /\ AwaitsClassifier(components[i], textClassifier))
           /\ settled' = settled \cup {i}
    /\ UNCHANGED <<pc, components, pageHeight, textClassifier, aiResponse, classifiedComponents,
                   structuredComponents, tables, labelDataPairs, fieldMappings, analysis,
                   headerAnalysis, sections, headerTextboxes>>
    /\ UNCHANGED <<fnVars, uiVars, loadVars, editVars>>

\* some call has resolved
PromiseAnyResolved(done, comps) == done # {} \/ comps = <<>>

\* Promise.all: every call has resolved
PromiseAllResolved(done, comps) == done = DOMAIN comps

\* await Promise.all(...) returns the classified components to analyzeDocument
JoinClassifications ==
    /\ pc = "initialized"
    /\ PromiseAllResolved(settled, components)
    /\ classifiedComponents' = analyzeComponents(components, textClassifier, aiResponse)
    /\ pc' = "classified"
    /\ UNCHANGED <<components, pageHeight, textClassifier, aiResponse, structuredComponents,
                   tables, labelDataPairs, fieldMappings, analysis, headerAnalysis, sections,
                   settled, headerTextboxes>>
    /\ UNCHANGED <<fnVars, uiVars, loadVars, editVars>>

NextConcurrent ==
    \/ InitializeModel
    \/ SettleOne
    \/ JoinClassifications
    \/ AnalyzeDocumentStructure
    \/ DetectTables
    \/ FindLabelDataPairs
    \/ GenerateFieldMappings
    \/ ReturnAnalysis
    \/ ProcessAIAnalysisResults
    \/ AnalyzeLayout

SpecConcurrent == Init /\ [][NextConcurrent]_vars

\* a pairedWith or a pair-derived fieldMapping has been assigned
PairAssigned ==
    \/ labelDataPairs # <<>>
    \/ \E i \in DOMAIN structuredComponents : structuredComponents[i].fieldMapping # Undefined
    \/ \E i \in DOMAIN headerAnalysis.pairedWith : headerAnalysis.pairedWith[i] # Unpaired

\* C16 (pairing after classification): in whatever order the calls of the
\* classifier resolve, no pairedWith and no pair-derived fieldMapping is
\* assigned before the classification of every component has resolved.
PairingAfterClassification ==
    PairAssigned => settled = DOMAIN components

\* two calls resolved one after the other, and both pairers have paired
PairingAfterClassificationWitness ==
    /\ pc = "done"
    /\ Len(components) >= 2
    /\ labelDataPairs # <<>>
    /\ \E i \in DOMAIN headerAnalysis.pairedWith : headerAnalysis.pairedWith[i] # Unpaired

\* C17 (no in-place mutation between stages): table detection, label-data
\* pairing and field-mapping generation leave the component records they
\* received from the previous stage as they were, and only produce new
\* structures (tables, labelDataPairs, fieldMappings).
NoInPlaceMutation ==
    [][(pc \in {"structured", "tables", "paired"}) =>
           (structuredComponents' = structuredComponents)]_vars

\* C18 (textbox minimum floors): every entry of the headerTextboxes
\* projection handed to the template emitter is at least 0.5in wide and
\* 0.25in high, whatever the width and height of its header component.
TextboxFloors ==
    \A i \in DOMAIN headerTextboxes :
        /\ headerTextboxes[i].width >= 5000
        /\ headerTextboxes[i].height >= 2500

\* ------------------------------------------------------------------------
\* The PDFAnalyzer component: choosing files, analysing, generating the RDL.
\* A document is a number; the results of an analysis are held as the
\* document they were made from.
\* ------------------------------------------------------------------------
MaxDocuments == 3
Documents == 1..MaxDocuments

\* handleFileSelect: a PDF becomes the selected file and analysisResult is
\* reset; any other file changes nothing
HandleFileSelect ==
    /\ \E file \in Documents, isPDF \in BOOLEAN :
           IF isPDF
           THEN /\ selectedFile' = file
                /\ analysisResult' = NoFile
           ELSE UNCHANGED <<selectedFile, analysisResult>>
    /\ UNCHANGED <<baseRDLContent, isAnalyzing, analyzedFile, enhancedAnalysis, editableFields,
                   executableRDL>>
    /\ UNCHANGED <<pipeVars, fnVars, loadVars, editVars>>

\* handleBaseRDLSelect with a readable RDL file
HandleBaseRDLSelect ==
    /\ baseRDLContent' = TRUE
    /\ UNCHANGED <<selectedFile, isAnalyzing, analyzedFile, analysisResult, enhancedAnalysis,
                   editableFields, executableRDL>>
    /\ UNCHANGED <<pipeVars, fnVars, loadVars, editVars>>

\* The editable fields of a document: convertToEditableFields makes one field
\* for each component it is given
MaxFields == 1
convertToEditableFields(file) ==
    [i \in 1..MaxFields |->
        [id |-> i, file |-> file, section |-> "header",
         classification |-> "static-label", content |-> "original"]]

\* A tab panel that keeps its content rendered whichever tab is active
EditorRenderedAnyTab(tab, list) == Len(list) > 0

\* <TabsContent value="editor"> renders its content while the tab is the
\* active one, and the content is the editor when there is a field
EditorRendered(tab, list) == tab = "editor" /\ Len(list) > 0

\* A render of PDFAnalyzer with this tab and this field list: an editor that
\* stays rendered keeps its state, an editor rendered anew starts with
\* useState([fields]) and useState(0), one no longer rendered loses its state
RenderEditor(tab, list) ==
    /\ activeTab' = tab
    /\ fields' = list
    /\ editorMounted' = EditorRendered(tab, list)
    /\ IF ~EditorRendered(tab, list)
          THEN history' = <<>> /\ historyIndex' = 0
          ELSE IF editorMounted
                 THEN UNCHANGED <<history, historyIndex>>
                 ELSE history' = <<list>> /\ historyIndex' = 0

\* analyzePDF up to its first await; the button is disabled while isAnalyzing
AnalyzePDF ==
    /\ selectedFile # NoFile
    /\ ~isAnalyzing
    /\ isAnalyzing' = TRUE
    /\ analyzedFile' = selectedFile
    /\ RenderEditor("analysis", fields)
    /\ UNCHANGED <<selectedFile, baseRDLContent, analysisResult, enhancedAnalysis, editableFields,
                   executableRDL>>
    /\ UNCHANGED <<pipeVars, fnVars, loadVars>>

\* both parsers resolved: the three results are set and the Results tab is
\* shown, then finally
AnalyzePDFResolves ==
    /\ isAnalyzing
    /\ analysisResult' = analyzedFile
    /\ enhancedAnalysis' = analyzedFile
    /\ editableFields' = analyzedFile
    /\ RenderEditor("results", convertToEditableFields(analyzedFile))
    /\ isAnalyzing' = FALSE
    /\ analyzedFile' = NoFile
    /\ UNCHANGED <<selectedFile, baseRDLContent, executableRDL>>
    /\ UNCHANGED <<pipeVars, fnVars, loadVars>>

\* a parser rejected: catch sets no result, then finally
AnalyzePDFRejects ==
    /\ isAnalyzing
    /\ isAnalyzing' = FALSE
    /\ analyzedFile' = NoFile
    /\ UNCHANGED <<selectedFile, baseRDLContent, analysisResult, enhancedAnalysis, editableFields,
                   executableRDL>>
    /\ UNCHANGED <<pipeVars, fnVars, loadVars, editVars>>

\* generateExecutableRDL: the header of enhancedAnalysis if there is one,
\* else the components of analysisResult
GenerateExecutableRDL ==
    /\ ~((analysisResult = NoFile /\ enhancedAnalysis = NoFile) \/ ~baseRDLContent)
    /\ executableRDL' = IF enhancedAnalysis # NoFile THEN enhancedAnalysis ELSE analysisResult
    /\ UNCHANGED <<selectedFile, baseRDLContent, isAnalyzing, analyzedFile, analysisResult,
                   enhancedAnalysis, editableFields>>
    /\ UNCHANGED <<pipeVars, fnVars, loadVars, editVars>>

NextUI ==
    \/ HandleFileSelect
    \/ HandleBaseRDLSelect
    \/ AnalyzePDF
    \/ AnalyzePDFResolves
    \/ AnalyzePDFRejects
    \/ GenerateExecutableRDL

InitUI ==
    /\ PipelineIdle
    /\ FieldNameIdle
    /\ UIIdle
    /\ LoadIdle
    /\ EditorIdle

SpecUI == InitUI /\ [][NextUI]_vars

\* C19 (no analysis state across documents): once the user has selected a
\* different PDF, none of analysisResult, enhancedAnalysis and editableFields
\* of the previous document remains until the new file has been analysed.
NoStaleAnalysis ==
    /\ analysisResult \in {NoFile, selectedFile}
    /\ enhancedAnalysis \in {NoFile, selectedFile}
    /\ editableFields \in {NoFile, selectedFile}

\* the input is a single item, or all items have the same top and height
SameVerticalExtent(comps) ==
    \A i, j \in DOMAIN comps : comps[i].y = comps[j].y /\ comps[i].height = comps[j].height

\* C20 (zero-span region edge case): when the input is a single item, or all
\* items share the same vertical extent, analyzeDocumentStructure gives every
\* item the region body, never header or footer.
ZeroSpanBody ==
    (pc \notin {"start", "initialized", "classified"} /\ SameVerticalExtent(components)) =>
        \A i \in DOMAIN structuredComponents : structuredComponents[i].rdlType = "body"

\* ------------------------------------------------------------------------
\* Pages for the pairers: labels and data of several widths on one line
\* ------------------------------------------------------------------------
MaxPairItems == 3

TextLongNumber == <<"1","2","3","4","5","6","7","8","9","0">>

\* two labels, and data right of them: a wide number, a narrow one next to
\* it, and narrow ones further away
PairItems ==
    {Item(TextTO, 50, 20, 40, 12, 12, "Normal"),
     Item(TextTO, 200, 20, 40, 12, 12, "Normal"),
     Item(TextLongNumber, 100, 20, 66, 12, 12, "Normal"),
     Item(Text7, 110, 20, 7, 12, 12, "Normal"),
     Item(Text7, 260, 20, 7, 12, 12, "Normal"),
     Item(Text7, 270, 20, 7, 12, 12, "Normal")}

InitPairing ==
    /\ FieldNameIdle
    /\ UIIdle
    /\ LoadIdle
    /\ EditorIdle
    /\ \E items \in ListsUpTo(PairItems, MaxPairItems) :
           PipelineStart(items, 792, Throw)

SpecPairing == InitPairing /\ [][Next]_vars

\* the data of the pairs emitted before the k-th
ClaimedBefore(pairs, k) == {pairs[j].data : j \in 1..(k - 1)}

\* C21 (nearest-candidate choice): the data of every emitted pair is, among
\* the candidates unclaimed at the label's turn that satisfy the adjacency
\* rule, one at the least distance between box centers from the label.
NearestByCenter ==
    /\ pc \in {"paired", "mapped", "analyzed", "processed", "done"} =>
           \A k \in DOMAIN labelDataPairs :
               LET label == ComponentById(structuredComponents, labelDataPairs[k].label)
                   closest == ComponentById(structuredComponents, labelDataPairs[k].data)
               IN \A i \in DOMAIN structuredComponents :
                      LET data == structuredComponents[i]
                      IN (/\ HasLabel(data, {"dynamic-data", "table-data"})
                          /\ data.id \notin ClaimedBefore(labelDataPairs, k)
                          /\ IsCandidate(label, data))
                         => CenterDistSq(label, closest) <= CenterDistSq(label, data)
    /\ pc \in {"processed", "done"} =>
           \A k \in DOMAIN headerAnalysis.labelDataPairs :
               LET pairs == headerAnalysis.labelDataPairs
                   label == ComponentById(structuredComponents, pairs[k].label)
                   closest == ComponentById(structuredComponents, pairs[k].data)
               IN \A id \in Range(headerAnalysis.dynamicData \o headerAnalysis.standaloneText) :
                      LET data == ComponentById(structuredComponents, id)
                      IN (/\ id \notin ClaimedBefore(pairs, k)
                          /\ isValidLabelDataPair(label, data))
                         => CenterDistSq(label, closest) <= CenterDistSq(label, data)

\* the data of the pairs whose label comes before the component id: the
\* usedDataComponents at the turn of that label
ClaimedBeforeLabel(pairs, id) == {pairs[j].data : j \in {k \in DOMAIN pairs : pairs[k].label < id}}

IsPairLabel(pairs, id) == \E k \in DOMAIN pairs : pairs[k].label = id

\* C22 (pair acceptance threshold): every emitted pair has a proximity
\* max(0, 1 - distance / 300) in [0,1] and above the threshold: above 0.4 in
\* findLabelDataPairs (center distance under 180) and above 0.3 in
\* findEnhancedLabelDataPairs (corner distance up to 210, where the double
\* 1 - 210 / 300 is 0.30000000000000004); a label left unpaired has no
\* unclaimed candidate above the threshold, and a candidate it did not take
\* is left to the later labels.
PairThreshold ==
    /\ pc \in {"paired", "mapped", "analyzed", "processed", "done"} =>
           /\ \A k \in DOMAIN labelDataPairs :
                  /\ labelDataPairs[k].distSq >= 0
                  /\ labelDataPairs[k].distSq < Square(2 * 180)
           /\ \A i \in DOMAIN structuredComponents :
                  LET label == structuredComponents[i]
                  IN (HasLabel(label, {"static-label", "form-label"})
                      /\ ~IsPairLabel(labelDataPairs, label.id))
                     => \A j \in DOMAIN structuredComponents :
                            LET data == structuredComponents[j]
                            IN (/\ HasLabel(data, {"dynamic-data", "table-data"})
                                /\ data.id \notin ClaimedBeforeLabel(labelDataPairs, label.id)
                                /\ IsCandidate(label, data))
                               => CenterDistSq(label, data) >= Square(2 * 180)
    /\ pc \in {"processed", "done"} =>
           LET pairs == headerAnalysis.labelDataPairs
           IN /\ \A k \in DOMAIN pairs :
                     /\ pairs[k].distSq >= 0
                     /\ pairs[k].distSq <= Square(210)
              /\ \A id \in Range(headerAnalysis.staticLabels) :
                     ~IsPairLabel(pairs, id)
                     => \A d \in Range(headerAnalysis.dynamicData \o headerAnalysis.standaloneText) :
                            LET label == ComponentById(structuredComponents, id)
                                data == ComponentById(structuredComponents, d)
                            IN (d \notin ClaimedBeforeLabel(pairs, id)
                                /\ isValidLabelDataPair(label, data))
                               => CornerDistSq(label, data) > Square(210)

\* in both pairers a label was left unpaired, its candidate being too far,
\* and a later label took that candidate
PairThresholdWitness ==
    /\ pc = "done"
    /\ \E k \in DOMAIN labelDataPairs :
       \E i \in DOMAIN structuredComponents :
           LET label == structuredComponents[i]
               data == ComponentById(structuredComponents, labelDataPairs[k].data)
           IN /\ HasLabel(label, {"static-label", "form-label"})
              /\ label.id < labelDataPairs[k].label
              /\ ~IsPairLabel(labelDataPairs, label.id)
              /\ IsCandidate(label, data)
    /\ \E k \in DOMAIN headerAnalysis.labelDataPairs :
       \E id \in Range(headerAnalysis.staticLabels) :
           LET pairs == headerAnalysis.labelDataPairs
               label == ComponentById(structuredComponents, id)
               data == ComponentById(structuredComponents, pairs[k].data)
           IN /\ id < pairs[k].label
              /\ ~IsPairLabel(pairs, id)
              /\ isValidLabelDataPair(label, data)

\* ------------------------------------------------------------------------
\* isLikelyTableHeader applied to one row band, as detectTables passes it:
\* sorted by X
\* ------------------------------------------------------------------------
MaxRowItems == 4
RowXs == <<0, 10, 100, 110, 200>>
RowTexts == {TextQty, Text7}
RowWeights == {"bold", "Normal"}

\* the rows with one item on each chosen X, of any of the texts and weights
RowBands ==
    UNION {LET xs == SelectSeq(RowXs, LAMBDA x : x \in chosen)
           IN {[i \in DOMAIN xs |-> Item(f[i][1], xs[i], 100, 40, 12, 12, f[i][2])] :
                  f \in [DOMAIN xs -> RowTexts \X RowWeights]} :
           chosen \in {c \in SUBSET Range(RowXs) : Cardinality(c) <= MaxRowItems}}

InitHeaderRow ==
    /\ PipelineIdle
    /\ UIIdle
    /\ LoadIdle
    /\ EditorIdle
    /\ fnWho = "isLikelyTableHeader"
    /\ fnIn \in {WithIds(row) : row \in RowBands}
    /\ fnOut = <<>>

ApplyIsLikelyTableHeader ==
    /\ fnWho = "isLikelyTableHeader"
    /\ fnOut = <<>>
    /\ fnOut' = <<isLikelyTableHeader(fnIn)>>
    /\ UNCHANGED <<fnWho, fnIn>>
    /\ UNCHANGED <<pipeVars, uiVars, loadVars, editVars>>

SpecHeaderRow == InitHeaderRow /\ [][ApplyIsLikelyTableHeader]_vars

\* the three conditions of a header row, as stated: at least half of the items
\* bold, a known column-header token, every X-gap within 30% of the mean gap
HalfBold(row) ==
    2 * Cardinality({i \in DOMAIN row : row[i].fontWeight = "bold"}) >= Len(row)

HasHeaderToken(row) ==
    \E i \in DOMAIN row : StartsWithToken(TypicalHeaderTokens, Trim(row[i].text))

UniformGaps(row) ==
    LET n == Len(row)
        gaps == [i \in 1..(n - 1) |-> row[i + 1].x - row[i].x]
    IN \A i \in 1..(n - 1) : 10 * Abs(gaps[i] * (n - 1) - SumSeq(gaps)) < 3 * SumSeq(gaps)

\* C23 (header-row detection): a row band of at least 2 items is a header row
\* exactly when at least 50% of its items are bold, or it has a known
\* column-header token, or its X-gaps are all within 30% of the mean gap.
HeaderRowRule ==
    (fnWho = "isLikelyTableHeader" /\ fnOut # <<>>) =>
        fnOut[1] = (Len(fnIn) >= 2 /\ (HalfBold(fnIn) \/ HasHeaderToken(fnIn) \/ UniformGaps(fnIn)))

\* ------------------------------------------------------------------------
\* Pages with a slanted header line: each header word a little lower than
\* the one left of it, and numbers on the line under it
\* ------------------------------------------------------------------------
SlantedHeaderPlaces ==
    <<[x |-> 0, y |-> 0], [x |-> 100, y |-> 10], [x |-> 200, y |-> 15],
      [x |-> 300, y |-> 20], [x |-> 400, y |-> 21]>>
SlantedDataPlaces ==
    <<[x |-> 0, y |-> 31], [x |-> 100, y |-> 31], [x |-> 200, y |-> 31], [x |-> 300, y |-> 31]>>

SlantedItemsAt(places) ==
    LET headers == SelectSeq(SlantedHeaderPlaces, LAMBDA p : p \in places)
        data == SelectSeq(SlantedDataPlaces, LAMBDA p : p \in places)
    IN [i \in DOMAIN headers |-> Item(TextQty, headers[i].x, headers[i].y, 40, 12, 12, "Normal")]
       \o [i \in DOMAIN data |-> Item(Text7, data[i].x, data[i].y, 40, 12, 12, "Normal")]

InitSlanted ==
    /\ FieldNameIdle
    /\ UIIdle
    /\ LoadIdle
    /\ EditorIdle
    /\ \E places \in SUBSET (Range(SlantedHeaderPlaces) \cup Range(SlantedDataPlaces)) :
           /\ Cardinality(places) <= MaxTableItems
           /\ PipelineStart(SlantedItemsAt(places), 792, Throw)

SpecSlanted == InitSlanted /\ [][Next]_vars

\* C24 (data rows strictly below the header band): in every detected table
\* every item of every data row lies below every header item, and no
\* component is both a header and a cell of a data row of the table.
DataRowsBelowHeader ==
    AfterDetectTables =>
        \A t \in DOMAIN tables : \A r \in DOMAIN tables[t].rows : \A k \in DOMAIN tables[t].rows[r] :
            \A h \in DOMAIN tables[t].headers :
                /\ tables[t].rows[r][k] # tables[t].headers[h]
                /\ structuredComponents[tables[t].rows[r][k]].y
                       > structuredComponents[tables[t].headers[h]].y

\* the classifier answered for the i-th component: the rules were not sure of
\* it, the classifier is loaded and did not throw
ClassifierAnswered(i) ==
    /\ textClassifier # Null
    /\ aiResponse # Throw
    /\ enhancedRuleBasedClassification(Trim(components[i].text), components[i], NoContext).score <= 8000

\* C25 (rule/external combination): a rule-based result above 0.8 is returned
\* as it is; otherwise, when the classifier's result has the same label, that
\* label is returned with 0.7 * rule + 0.3 * external, and when the labels
\* differ the result of the higher score is returned whole.
RuleExternalCombination ==
    AfterAnalyzeComponents =>
        \A i \in DOMAIN classifiedComponents :
            LET rule == enhancedRuleBasedClassification(Trim(components[i].text), components[i],
                                                        NoContext)
                external == aiClassificationZeroShot(aiResponse)
                final == classifiedComponents[i].aiClassification
            IN /\ rule.score > 8000 => final = rule
               /\ (ClassifierAnswered(i) /\ external.label = rule.label) =>
                      /\ final.label = rule.label
                      /\ 10 * final.score = 7 * rule.score + 3 * external.score
               /\ (ClassifierAnswered(i) /\ external.label # rule.label) =>
                      /\ final \in {rule, external}
                      /\ final.score >= rule.score
                      /\ final.score >= external.score

\* the classifier disagreed with the rules and was the surer of the two, and
\* its result was returned
RuleExternalCombinationWitness ==
    /\ pc = "done"
    /\ \E i \in DOMAIN classifiedComponents :
           LET rule == enhancedRuleBasedClassification(Trim(components[i].text), components[i],
                                                       NoContext)
           IN /\ ClassifierAnswered(i)
              /\ aiClassificationZeroShot(aiResponse).label # rule.label
              /\ aiClassificationZeroShot(aiResponse).score > rule.score
              /\ classifiedComponents[i].aiClassification = aiClassificationZeroShot(aiResponse)

\* C26 (overall confidence): the overall confidence of a document is the
\* arithmetic mean of the scores of all its classified components, header,
\* body and footer alike, and 0 when there is none.
OverallConfidenceMean ==
    pc \in {"processed", "done"} =>
        LET scores == [i \in DOMAIN structuredComponents |->
                          structuredComponents[i].aiClassification.score]
        IN IF structuredComponents = <<>> THEN headerAnalysis.confidence.num = 0
           ELSE headerAnalysis.confidence.num * Len(scores)
                    = SumSeq(scores) * headerAnalysis.confidence.den

\* ------------------------------------------------------------------------
\* Pages of two form lines, a label with its value on each, the second line
\* indented so that the two are no table; the labels and the values may have
\* the same text
\* ------------------------------------------------------------------------
TextFROM == <<"F","R","O","M",":">>

FormLineItems(label1, data1, label2, data2) ==
    <<Item(label1, 50, 20, 40, 12, 12, "Normal"), Item(data1, 110, 20, 40, 12, 12, "Normal"),
      Item(label2, 80, 100, 40, 12, 12, "Normal"), Item(data2, 140, 100, 40, 12, 12, "Normal")>>

\* the items of the places kept, in the order of the list
KeepPlaces(items, kept) ==
    LET RECURSIVE Keep(_)
        Keep(i) == IF i > Len(items) THEN <<>>
                   ELSE (IF i \in kept THEN <<items[i]>> ELSE <<>>) \o Keep(i + 1)
    IN Keep(1)

InitFormLines ==
    /\ FieldNameIdle
    /\ UIIdle
    /\ LoadIdle
    /\ EditorIdle
    /\ \E label1, label2 \in {TextTO, TextFROM} :
       \E data1, data2 \in {Text7, TextLongNumber} :
       \E kept \in SUBSET (1..4) :
           PipelineStart(KeepPlaces(FormLineItems(label1, data1, label2, data2), kept), 792, Throw)

SpecFormLines == InitFormLines /\ [][Next]_vars

HasFieldMapping(c) == c.fieldMapping # Undefined /\ c.fieldMapping # <<>>

\* C27 (first-seen-wins field table): when two components write the same key
\* of the field-mapping table, the entry written first is kept.
FirstSeenWins ==
    pc \in {"mapped", "analyzed", "processed", "done"} =>
        \A i \in DOMAIN structuredComponents :
            LET first == structuredComponents[i]
            IN (/\ HasFieldMapping(first)
                /\ \A j \in 1..(i - 1) :
                       ~(HasFieldMapping(structuredComponents[j])
                         /\ structuredComponents[j].text = first.text))
               => fieldMappings[first.text] = first.fieldMapping

\* ---------------------------------------------------------------------------
\* The components one table reports, its headers and the cells of its rows
TableMembers(t) ==
    {t.headers[h] : h \in DOMAIN t.headers}
        \cup UNION {{t.rows[r][k] : k \in DOMAIN t.rows[r]} : r \in DOMAIN t.rows}

\* C28: across the tables of one detectTables call each component appears in
\* at most one table, as a header or as a row cell; a band that is a data row
\* of one table is not the header or a row of another.
NoSharedTableComponent ==
    AfterDetectTables =>
        \A t1, t2 \in DOMAIN tables :
            t1 # t2 => TableMembers(tables[t1]) \cap TableMembers(tables[t2]) = {}

\* ---------------------------------------------------------------------------
\* Overlapping calls of initializeModel.  A caller's call is at "idle" (not
\* made), at "webgpu" (inside the first await pipeline(...)), at "cpu" (inside
\* the await of the fallback pipeline) or "resolved"; a resolved call keeps
\* the isLoading and the textClassifier its caller finds when it resumes.
Resolved(loading, classifier) ==
    [at |-> "resolved", sawLoading |-> loading, sawClassifier |-> classifier]

\* if (this.textClassifier || this.isLoading) return; this.isLoading = true;
\* then the call waits for the WebGPU pipeline
CallInitializeModel(c) ==
    /\ initCalls[c].at = "idle"
    /\ IF textClassifier # Null \/ isLoading
          THEN /\ initCalls' = [initCalls EXCEPT ![c] = Resolved(isLoading, textClassifier)]
               /\ UNCHANGED isLoading
          ELSE /\ isLoading' = TRUE
               /\ initCalls' = [initCalls EXCEPT ![c].at = "webgpu"]
    /\ UNCHANGED <<pipeVars, fnVars, uiVars, editVars>>

\* a pipeline(...) promise resolves: the classifier is stored and the finally
\* block clears isLoading
PipelineResolves(c) ==
    /\ initCalls[c].at \in {"webgpu", "cpu"}
    /\ textClassifier' = "loaded"
    /\ isLoading' = FALSE
    /\ initCalls' = [initCalls EXCEPT ![c] = Resolved(FALSE, "loaded")]
    /\ UNCHANGED <<pc, components, pageHeight, aiResponse, classifiedComponents,
                   structuredComponents, tables, labelDataPairs, fieldMappings, analysis,
                   headerAnalysis, sections, settled, headerTextboxes>>
    /\ UNCHANGED <<fnVars, uiVars, editVars>>

\* the WebGPU pipeline rejects: the catch block awaits the fallback pipeline
WebGPURejects(c) ==
    /\ initCalls[c].at = "webgpu"
    /\ initCalls' = [initCalls EXCEPT ![c].at = "cpu"]
    /\ UNCHANGED isLoading
    /\ UNCHANGED <<pipeVars, fnVars, uiVars, editVars>>

\* the fallback pipeline rejects too: textClassifier = null, then finally
FallbackRejects(c) ==
    /\ initCalls[c].at = "cpu"
    /\ textClassifier' = Null
    /\ isLoading' = FALSE
    /\ initCalls' = [initCalls EXCEPT ![c] = Resolved(FALSE, Null)]
    /\ UNCHANGED <<pc, components, pageHeight, aiResponse, classifiedComponents,
                   structuredComponents, tables, labelDataPairs, fieldMappings, analysis,
                   headerAnalysis, sections, settled, headerTextboxes>>
    /\ UNCHANGED <<fnVars, uiVars, editVars>>

\* a caller whose call has resolved may call again later
CallerReturns(c) ==
    /\ initCalls[c].at = "resolved"
    /\ initCalls' = [initCalls EXCEPT ![c] = NotCalled]
    /\ UNCHANGED isLoading
    /\ UNCHANGED <<pipeVars, fnVars, uiVars, editVars>>

NextLoad ==
    \E c \in Callers :
        \/ CallInitializeModel(c)
        \/ PipelineResolves(c)
        \/ WebGPURejects(c)
        \/ FallbackRejects(c)
        \/ CallerReturns(c)

InitLoad ==
    /\ PipelineIdle
    /\ FieldNameIdle
    /\ UIIdle
    /\ LoadIdle
    /\ EditorIdle

SpecLoad == InitLoad /\ [][NextLoad]_vars

LoadsInFlight == {c \in Callers : initCalls[c].at \in {"webgpu", "cpu"}}

\* At most one model load is in flight at a time (the first half of C29)
SingleLoadInFlight ==
    /\ Cardinality(LoadsInFlight) <= 1
    /\ isLoading <=> LoadsInFlight # {}

\* C29: when calls of initializeModel overlap, at most one model load is in
\* flight at a time, and a call resolves only when no load is in progress, so
\* that its caller sees the final model state, loaded or load failed, and
\* never the null classifier of a load that has not finished.
InitializeModelSettled ==
    /\ Cardinality(LoadsInFlight) <= 1
    /\ \A c \in Callers :
           initCalls[c].at = "resolved" => ~initCalls[c].sawLoading

\* ---------------------------------------------------------------------------
\* The field editor.  PDFAnalyzer holds the field list and the active tab;
\* PDFFieldEditor holds history and historyIndex and reports every change of
\* the list to the parent through onFieldsChange (handleFieldsChange).
MaxHistory == 3
TabNames == {"upload", "analysis", "results", "editor", "rdl"}
SectionNames == {"header", "body", "footer"}
ClassificationNames == {"static-label", "dynamic-data", "standalone-text"}
ContentTexts == {"original", "edited"}

\* the TabsTrigger of a tab is not disabled
TabEnabled(tab) ==
    CASE tab \in {"results", "rdl"} -> analysisResult # NoFile
      [] tab = "editor" -> Len(fields) > 0
      [] OTHER -> TRUE

\* a click on a tab: onValueChange={setActiveTab}
SelectTab ==
    /\ \E tab \in TabNames :
           /\ TabEnabled(tab)
           /\ RenderEditor(tab, fields)
    /\ UNCHANGED <<pipeVars, fnVars, uiVars, loadVars>>

\* fields.map(field => field.id === fieldId ? changed : field)
MapField(list, fieldId, changed) ==
    [i \in DOMAIN list |-> IF list[i].id = fieldId THEN changed ELSE list[i]]

\* saveToHistory(newFields), then onFieldsChange(newFields)
SaveAndReport(newFields) ==
    /\ editorMounted
    /\ Len(history) < MaxHistory
    /\ LET newHistory == SubSeq(history, 1, historyIndex + 1) \o <<newFields>>
       IN /\ history' = newHistory
          /\ historyIndex' = Len(newHistory) - 1
    /\ fields' = newFields
    /\ UNCHANGED <<activeTab, editorMounted>>
    /\ UNCHANGED <<pipeVars, fnVars, uiVars, loadVars>>

MoveFieldToSection ==
    \E i \in DOMAIN fields, newSection \in SectionNames :
        SaveAndReport(MapField(fields, fields[i].id, [fields[i] EXCEPT !.section = newSection]))

UpdateField ==
    \E i \in DOMAIN fields, text \in ContentTexts :
        SaveAndReport(MapField(fields, fields[i].id, [fields[i] EXCEPT !.content = text]))

UpdateFieldClassification ==
    \E i \in DOMAIN fields, classification \in ClassificationNames :
        SaveAndReport(MapField(fields, fields[i].id,
                               [fields[i] EXCEPT !.classification = classification]))

\* undo: history[historyIndex - 1] goes to the parent
UndoEdit ==
    /\ editorMounted
    /\ historyIndex > 0
    /\ fields' = history[historyIndex]
    /\ historyIndex' = historyIndex - 1
    /\ UNCHANGED <<activeTab, editorMounted, history>>
    /\ UNCHANGED <<pipeVars, fnVars, uiVars, loadVars>>

NextEditor ==
    \/ HandleFileSelect
    \/ AnalyzePDF
    \/ AnalyzePDFResolves
    \/ AnalyzePDFRejects
    \/ SelectTab
    \/ MoveFieldToSection
    \/ UpdateField
    \/ UpdateFieldClassification
    \/ UndoEdit

SpecEditor == InitUI /\ [][NextEditor]_vars

====
